---- MODULE Spec2Model ----
(***************************************************************************)
(* Verification model of 123strm (src/app).                                *)
(*                                                                         *)
(* Parts, each with its own specification:                                 *)
(*   SpecJob      JobManager.run_job called from several threads           *)
(*   SpecAll      JobManager.run_all_jobs with a concurrent run_job        *)
(*   SpecClean    FileCleaner / FileManager clean_local_files              *)
(*   SpecToken    access-token cache and request wrappers (cloud_api.py),  *)
(*                get_access_token of main.py                              *)
(*   SpecTrav     traversal of the remote tree and the steps of one run    *)
(*   SpecSave     async_save_file_ids (utils.py)                           *)
(*   SpecClassify, SpecPath, SpecReload                                    *)
(*                what FileProcessor / StrmGenerator do with one file      *)
(*   SpecSched    the job timer of TaskScheduler on the event loop, with   *)
(*                calls of start() and stop() (scheduler.py)               *)
(*   SpecStrm     strm files and the manifest over several runs            *)
(*   SpecRace     two saves of the manifest cache at the same time         *)
(*   SpecUrl      the redirect endpoint and the download-url cache         *)
(*   SpecUp       upload_directory (route.py)                              *)
(*   SpecCfg      the job ids ConfigManager.validate leaves                *)
(*   SpecPool     ConnectionPool (api.py)                                  *)
(***************************************************************************)
EXTENDS Integers, Sequences, FiniteSets, TLC

VARIABLES
    \* ---- JobManager (job_manager.py)
    running_jobs,   \* JobManager.running_jobs : set of job ids
    pc,             \* per thread: position inside run_job
    cur,            \* per thread: job_id argument of the call in progress
    work,           \* per thread: what the call in progress has done so far
    outcome,        \* per thread: how the last finished call ended
    seen,           \* per thread: running_jobs as read by the guard of the call
    ncalls,         \* number of run_job calls issued so far
    \* ---- local tree and its cleaners (file_cleaner.py, file_manager.py)
    fsDirs,         \* directories that exist on disk (paths)
    fsFiles,        \* files that exist on disk (paths)
    cloud_files,    \* the manifest handed to the cleaner: its key set
    cleaner,        \* which implementation runs: "FileCleaner" | "FileManager"
    cpc,            \* position of clean_local_files
    pendingDel,     \* _delete_file tasks created and not yet executed
    dirTask,        \* per directory: state of its _delete_empty_dir task
    earlyChecked,   \* directories whose emptiness check ran while a deletion
                    \* beneath them was still pending
    \* ---- access-token cache and request wrappers (cloud_api.py, main.py)
    impl,           \* which module runs: "cloud_api" | "main"
    now,            \* the clock, in hours
    cacheFile,      \* per client_id: content of token_cache_<client_id>.json
    useCache,       \* global_job_cache_tokens: per job "unset" | "true" | "false"
    nextToken,      \* last token the auth endpoint issued
    revoked,        \* tokens the vendor API answers with code 401
    invalidated,    \* per client_id: token in use when a 401 invalidated the
                    \* cache, until the next get_access_token call starts
    task,           \* per coroutine: the operation in progress and its locals
    nops,           \* number of operations started so far
    \* ---- traversal of the remote tree (strm_generator.py, file_traverser.py,
    \*      file_processor.py) and the run that uses it (job_manager.py)
    traverser,      \* which class traverses: "StrmGenerator" | "FileTraverser"
    config,         \* the job's configuration values read by the traverser
    firstCursor,    \* the lastFileId the server returns with a first page
    local,          \* per local path: content of the file, or "absent"
    snapshot,       \* local as it was when the current run started
    manifest,       \* self.cloud_files: set of <<key, fileId>>
    stack,          \* the active traverse_folders calls, innermost last
    tlog,           \* list requests and entries processed in the current run
    rpc,            \* position of the run
    run,            \* number of runs started
    writes,         \* strm files written in the current run
    urlReqs,        \* file ids whose download URL the current run requested
    errs,           \* per run: errors that occurred in it
    failed,         \* folders whose traversal an error aborted in this run
    persisted,      \* the manifest handed to save_file_ids
    cleanerCalled,  \* FileCleaner.clean_local_files was called by run_job
    \* ---- JobManager.run_all_jobs (job_manager.py)
    apc,            \* position of run_all_jobs in the event-loop thread
    job_ids,        \* the list get_job_ids returned to run_all_jobs
    invoked,        \* job ids run_all_jobs has called run_job for, in order
    \* ---- manifest cache (utils.py async_save_file_ids)
    cache_files,    \* content of config/cache_files.json
    cache_before,   \* its content when the last save started
    save_arg,       \* arguments of the last save: job_id and cloud_files
    save_result,    \* how the last save ended
    nsaves,         \* number of saves so far
    \* ---- one file (file_processor.py, strm_generator.py)
    processor,      \* which implementation: "FileProcessor" | "StrmGenerator"
    live,           \* the job configuration config_manager serves now
    start,          \* the job configuration when the run started
    inst,           \* the fields the constructor stored in the instance
    parent_path,    \* parent_path of the folder the traverser is in
    depth,          \* how many folders below its starting folder it is
    decision,       \* what the last process_file call did
    \* ---- TaskScheduler (scheduler.py)
    sched_running,  \* TaskScheduler._running
    cron_task,      \* TaskScheduler._cron_task: a timer task, 0 for None
    tasks,          \* the timer tasks created so far
    ready,          \* the ready queue of the event loop
    waiters,        \* coroutines suspended in `await self._cron_task`
    sched_loops,    \* scheduler loops that go round
    stopped,        \* stop() has returned, no start() since it was called
    jobs_result,    \* how the last run_all_jobs of a timer went
    nfired,         \* number of firings of timers so far
    narmed,         \* number of timers armed so far
    nticks,         \* rounds of the scheduler loops so far
    nstarts,        \* calls of start() so far
    nstops,         \* calls of stop() so far
    \* ---- strm files and the manifest over several runs
    \*      (file_processor.py, strm_generator.py, file_traverser.py)
    listing,        \* the videos the cloud lists for the run in progress
    todo,           \* items of the listing the run has not processed yet
    disk,           \* the strm files on disk: set of <<path, content>>
    run_cloud_files,\* self.cloud_files of the run: set of <<path, fileId>>
    overwrite,      \* self.overwrite
    strm_runs,      \* number of runs started
    \* ---- two saves of the manifest cache at the same time (utils.py)
    saver,          \* per call of async_save_file_ids: position and locals
    \* ---- the redirect endpoint (route.py get_file_url, cloud_api.py)
    lookup,         \* the function the endpoint's lookup call reaches
    download_url_cache, \* per file id: {url, expire_time} or no entry
    url_now,        \* time.time(), in units of cache_expire_time
    reply,          \* what the last request was answered with
    nrequests,      \* number of requests so far
    \* ---- upload_directory (route.py)
    up_pc,          \* position of the handler
    up_disk,        \* files under folder_path that exist on disk
    up_query,       \* the request and what os finds for its files
    up_walk,        \* files of the walk not yet handled
    up_sent,        \* requests the cloud has received
    up_accepted,    \* <<file, how>>: content the cloud has accepted
    up_removed,     \* files the handler removed from disk
    up_failed,      \* files the handler counted as failed
    \* ---- ConfigManager.validate (config_manager.py)
    job_list,       \* self._config["job_list"]
    nvalidations,   \* calls of validate() so far
    \* ---- ConnectionPool (api.py)
    pool_cfg,       \* max_size and idle_timeout of the pool
    pool,           \* self._pool: the idle connections, each with its time
    pool_out,       \* connections handed out and not yet released
    pool_time,      \* time.time()
    pool_made,      \* connections created so far
    pool_result     \* how the last get_connection ended

jobVars == <<running_jobs, pc, cur, work, outcome, seen, ncalls>>

cleanVars == <<fsDirs, fsFiles, cloud_files, cleaner, cpc, pendingDel,
               dirTask, earlyChecked>>

tokenVars == <<impl, now, cacheFile, useCache, nextToken, revoked,
               invalidated, task, nops>>

travVars == <<traverser, config, firstCursor, local, snapshot, manifest,
              stack, tlog, rpc, run, writes, urlReqs, errs, failed, persisted,
              cleanerCalled>>

allVars == <<apc, job_ids, invoked>>

saveVars == <<cache_files, cache_before, save_arg, save_result, nsaves>>

procVars == <<processor, live, start, inst, parent_path, depth, decision>>

schedVars == <<sched_running, cron_task, tasks, ready, waiters, sched_loops, stopped,
               jobs_result, nfired, narmed, nticks, nstarts, nstops>>

strmVars == <<listing, todo, disk, run_cloud_files, overwrite, strm_runs>>

raceVars == <<saver>>

urlVars == <<lookup, download_url_cache, url_now, reply, nrequests>>

upVars == <<up_pc, up_disk, up_query, up_walk, up_sent, up_accepted,
            up_removed, up_failed>>

cfgVars == <<job_list, nvalidations>>

poolVars == <<pool_cfg, pool, pool_out, pool_time, pool_made, pool_result>>

moreVars == <<strmVars, raceVars, urlVars, upVars, cfgVars, poolVars>>

extVars == <<allVars, saveVars, procVars, schedVars, moreVars>>

vars == <<jobVars, cleanVars, tokenVars, travVars, extVars>>

nonJobVars == <<cleanVars, tokenVars, travVars, extVars>>

nonCleanVars == <<jobVars, tokenVars, travVars, extVars>>

nonTokenVars == <<jobVars, cleanVars, travVars, extVars>>

nonTravVars == <<jobVars, cleanVars, tokenVars, extVars>>

\* run_all_jobs acts on its own variables and on those of run_job.
nonAllVars == <<cleanVars, tokenVars, travVars, saveVars, procVars, schedVars,
                moreVars>>

nonSaveVars == <<jobVars, cleanVars, tokenVars, travVars, allVars, procVars,
                 schedVars, moreVars>>

nonProcVars == <<jobVars, cleanVars, tokenVars, travVars, allVars, saveVars,
                 schedVars, moreVars>>

nonSchedVars == <<jobVars, cleanVars, tokenVars, travVars, allVars, saveVars,
                  procVars, moreVars>>

\* The eight parts above, for the parts that follow them.
firstVars == <<jobVars, cleanVars, tokenVars, travVars, allVars, saveVars,
               procVars, schedVars>>

\* A run that writes strm files constructs the processor: it acts on the
\* processor's variables as well.
nonStrmVars == <<jobVars, cleanVars, tokenVars, travVars, allVars, saveVars,
                 schedVars, raceVars, urlVars, upVars, cfgVars, poolVars>>

\* The overlapping saves act on the cache file of the save part.
nonRaceVars == <<jobVars, cleanVars, tokenVars, travVars, allVars, procVars,
                 schedVars, strmVars, urlVars, upVars, cfgVars, poolVars>>

nonUrlVars == <<firstVars, strmVars, raceVars, upVars, cfgVars, poolVars>>

nonUpVars == <<firstVars, strmVars, raceVars, urlVars, cfgVars, poolVars>>

nonCfgVars == <<firstVars, strmVars, raceVars, urlVars, upVars, poolVars>>

nonPoolVars == <<firstVars, strmVars, raceVars, urlVars, upVars, cfgVars>>

(***************************************************************************)
(* JobManager.run_job                                                      *)
(***************************************************************************)

\* Threads that call run_job: the event-loop thread (scheduler ->
\* run_all_jobs) and the worker threads of asyncio.to_thread (scrape_directory).
Threads == {"loop", "worker1", "worker2"}

JobIds == {"X", "Y"}

\* Bound on the number of run_job calls issued in one behaviour.
MaxCalls == 3

NoWork == [traverse |-> FALSE, save |-> FALSE, clean |-> FALSE]

JobInit ==
    /\ running_jobs = {}
    /\ pc = [t \in Threads |-> "idle"]
    /\ cur = [t \in Threads |-> "none"]
    /\ work = [t \in Threads |-> NoWork]
    /\ outcome = [t \in Threads |-> "none"]
    /\ seen = [t \in Threads |-> {}]
    /\ ncalls = 0

\* A thread enters run_job(job_id).
Call(t, j) ==
    /\ pc[t] = "idle"
    /\ ncalls < MaxCalls
    /\ pc' = [pc EXCEPT ![t] = "guard"]
    /\ cur' = [cur EXCEPT ![t] = j]
    /\ work' = [work EXCEPT ![t] = NoWork]
    /\ outcome' = [outcome EXCEPT ![t] = "none"]
    /\ seen' = [seen EXCEPT ![t] = {}]
    /\ ncalls' = ncalls + 1
    /\ UNCHANGED running_jobs
    /\ UNCHANGED nonJobVars

\* A guard that never takes the early return.
GuardNeverSkips(t) == FALSE

\* job_manager.py:32-34  `if job_id in self.running_jobs: ... return`
GuardSkips(t) == cur[t] \in running_jobs

Guard(t) ==
    /\ pc[t] = "guard"
    /\ seen' = [seen EXCEPT ![t] = running_jobs]
    /\ IF GuardSkips(t)
       THEN /\ pc' = [pc EXCEPT ![t] = "idle"]
            /\ outcome' = [outcome EXCEPT ![t] = "skipped"]
       ELSE /\ pc' = [pc EXCEPT ![t] = "add"]
            /\ UNCHANGED outcome
    /\ UNCHANGED <<running_jobs, cur, work, ncalls>>
    /\ UNCHANGED nonJobVars

\* job_manager.py:37  `self.running_jobs.add(job_id)`
Add(t) ==
    /\ pc[t] = "add"
    /\ running_jobs' = running_jobs \cup {cur[t]}
    /\ pc' = [pc EXCEPT ![t] = "traverse"]
    /\ UNCHANGED <<cur, work, outcome, seen, ncalls>>
    /\ UNCHANGED nonJobVars

\* job_manager.py:41-44  FileTraverser(job_id).traverse_folders(...):
\* completes, or raises (e.g. config_manager.get in the constructor).
Traverse(t) ==
    /\ pc[t] = "traverse"
    /\ \E ok \in BOOLEAN :
          IF ok
          THEN /\ work' = [work EXCEPT ![t].traverse = TRUE]
               /\ pc' = [pc EXCEPT ![t] = "save"]
          ELSE /\ pc' = [pc EXCEPT ![t] = "except"]
               /\ UNCHANGED work
    /\ UNCHANGED <<running_jobs, cur, outcome, seen, ncalls>>
    /\ UNCHANGED nonJobVars

\* job_manager.py:46  save_file_ids(cloud_files, job_id): completes or raises.
Save(t) ==
    /\ pc[t] = "save"
    /\ \E ok \in BOOLEAN :
          IF ok
          THEN /\ work' = [work EXCEPT ![t].save = TRUE]
               /\ pc' = [pc EXCEPT ![t] = "clean"]
          ELSE /\ pc' = [pc EXCEPT ![t] = "except"]
               /\ UNCHANGED work
    /\ UNCHANGED <<running_jobs, cur, outcome, seen, ncalls>>
    /\ UNCHANGED nonJobVars

\* job_manager.py:48-55  FileCleaner(...).clean_local_files(...): completes
\* or raises.
Clean(t) ==
    /\ pc[t] = "clean"
    /\ \E ok \in BOOLEAN :
          IF ok
          THEN /\ work' = [work EXCEPT ![t].clean = TRUE]
               /\ pc' = [pc EXCEPT ![t] = "finally"]
          ELSE /\ pc' = [pc EXCEPT ![t] = "except"]
               /\ UNCHANGED work
    /\ UNCHANGED <<running_jobs, cur, outcome, seen, ncalls>>
    /\ UNCHANGED nonJobVars

\* job_manager.py:56-57  `except Exception as e: handle_exception(e, "job", ...)`
\* (re_raise defaults to False: the exception is logged and swallowed).
Except(t) ==
    /\ pc[t] = "except"
    /\ pc' = [pc EXCEPT ![t] = "finally"]
    /\ UNCHANGED <<running_jobs, cur, work, outcome, seen, ncalls>>
    /\ UNCHANGED nonJobVars

\* job_manager.py:58-59  `finally: self.running_jobs.remove(job_id)`;
\* set.remove raises KeyError when the element is absent, and an exception
\* raised in a finally block propagates to the caller.
Finally(t) ==
    /\ pc[t] = "finally"
    /\ IF cur[t] \in running_jobs
       THEN /\ running_jobs' = running_jobs \ {cur[t]}
            /\ outcome' = [outcome EXCEPT ![t] = "returned"]
       ELSE /\ UNCHANGED running_jobs
            /\ outcome' = [outcome EXCEPT ![t] = "raised"]
    /\ pc' = [pc EXCEPT ![t] = "idle"]
    /\ UNCHANGED <<cur, work, seen, ncalls>>
    /\ UNCHANGED nonJobVars

JobNext ==
    \E t \in Threads :
        \/ \E j \in JobIds : Call(t, j)
        \/ Guard(t)
        \/ Add(t)
        \/ Traverse(t)
        \/ Save(t)
        \/ Clean(t)
        \/ Except(t)
        \/ Finally(t)

(***************************************************************************)
(* Claims about run_job                                                    *)
(***************************************************************************)

\* Positions of run_job after the running-set guard has been passed.
PastGuardPcs == {"add", "traverse", "save", "clean", "except", "finally"}

\* Positions between running_jobs.add and running_jobs.remove.
InProgressPcs == {"traverse", "save", "clean", "except", "finally"}

PastGuard(j) == {t \in Threads : pc[t] \in PastGuardPcs /\ cur[t] = j}

\* C1: for every interleaving of two run_job(X) calls, in no reachable state
\* are two executions of the same job id both past the running-set guard
\* (exactly one proceeds, the other is a no-op).
C1_AtMostOnePastGuard ==
    \A j \in JobIds : Cardinality(PastGuard(j)) <= 1

\* C2: a job id is in the running-set exactly while an execution of it is in
\* progress (between the add and the remove of that execution), and run_job
\* never propagates an exception to its caller.
C2_RunningSetTracksExecution ==
    /\ \A j \in JobIds :
          j \in running_jobs <=>
             \E t \in Threads : cur[t] = j /\ pc[t] \in InProgressPcs
    /\ \A t \in Threads : outcome[t] # "raised"

\* C3: a run_job(X) call whose guard finds X in the running-set returns at
\* once: no traversal, no manifest persistence, no reconciliation, no error,
\* the running-set is left as it was, and the dropped call never executes
\* (every execution past the guard belongs to a call whose guard read the
\* running-set without its job id).
C3_SkipIsNoOp ==
    [][ /\ \A t \in Threads :
              (pc[t] = "guard" /\ cur[t] \in running_jobs /\ pc'[t] # "guard")
              => /\ pc'[t] = "idle"
                 /\ outcome'[t] = "skipped"
                 /\ work'[t] = NoWork
                 /\ running_jobs' = running_jobs
        /\ \A t \in Threads :
              /\ outcome'[t] = "skipped" => (pc'[t] = "idle" /\ work'[t] = NoWork)
              /\ pc'[t] \in PastGuardPcs => cur'[t] \notin seen'[t]
      ]_vars

\* A call was skipped while the run it collided with is still in progress.
C3_Witness ==
    \E t, u \in Threads :
        /\ t # u
        /\ outcome[t] = "skipped" /\ pc[t] = "idle"
        /\ cur[u] = cur[t] /\ pc[u] \in InProgressPcs
        /\ cur[t] \in running_jobs

(***************************************************************************)
(* The local tree                                                          *)
(***************************************************************************)

\* A path is the sequence of its components; os.path.join(root, name) is
\* Append(root, name).
LocalDir == <<"media">>

AllDirs == {<<"media">>, <<"media", "a">>, <<"media", "a", "b">>,
            <<"media", "c">>}

AllFiles == {<<"media", "f">>, <<"media", "a", "g">>,
             <<"media", "a", "b", "h">>, <<"media", "c", "k">>}

Parent(p) == SubSeq(p, 1, Len(p) - 1)

\* p lies strictly beneath directory d.
IsUnder(p, d) == Len(p) > Len(d) /\ SubSeq(p, 1, Len(d)) = d

\* os.listdir(d) on a tree (dirs, files): the entries directly in d.
ListDir(d, dirs, files) == {p \in dirs \cup files : Len(p) > 1 /\ Parent(p) = d}

\* A tree the file system can hold: every entry's parent directory exists.
IsTree(dirs, files) ==
    \A p \in dirs \cup files : Len(p) > 1 => Parent(p) \in dirs

NoDirTask == [d \in AllDirs |-> "none"]

CleanInit ==
    /\ fsDirs \in SUBSET AllDirs
    /\ fsFiles \in SUBSET AllFiles
    /\ IsTree(fsDirs, fsFiles)
    /\ cloud_files \in SUBSET AllFiles
    /\ cleaner \in {"FileCleaner", "FileManager"}
    /\ cpc = "start"
    /\ pendingDel = {}
    /\ dirTask = NoDirTask
    /\ earlyChecked = {}

\* The cleaners at rest, for the specifications that do not run them.
CleanIdle ==
    /\ fsDirs = {}
    /\ fsFiles = {}
    /\ cloud_files = {}
    /\ cleaner = "FileCleaner"
    /\ cpc = "done"
    /\ pendingDel = {}
    /\ dirTask = NoDirTask
    /\ earlyChecked = {}

(***************************************************************************)
(* FileCleaner.clean_local_files (file_cleaner.py)                         *)
(***************************************************************************)

\* file_cleaner.py:55-73 _delete_invalid_files, over every (root, files) of
\* the walk: one _delete_file task per walked file whose path is not a key
\* of cloud_files.
InvalidFiles(files) == {f \in files : f \notin cloud_files}

\* file_cleaner.py:89-105 _delete_empty_directories, over every (root, dirs)
\* of the walk: one _delete_empty_dir task per sub-directory of a walked
\* directory; the walked top directory itself is in no `dirs` list.
WalkedSubDirs(dirs) == dirs \ {LocalDir}

\* file_cleaner.py:23-46: the existence test, then os.walk(topdown=False) is
\* consumed to its end (the loop body only builds coroutines), so every task
\* is created from one snapshot of the tree before any of them runs.
FC_Start ==
    /\ cleaner = "FileCleaner"
    /\ cpc = "start"
    /\ IF LocalDir \notin fsDirs
       THEN /\ cpc' = "done"
            /\ UNCHANGED <<pendingDel, dirTask>>
       ELSE /\ cpc' = "gather"
            /\ pendingDel' = InvalidFiles(fsFiles)
            /\ dirTask' = [d \in AllDirs |->
                              IF d \in WalkedSubDirs(fsDirs) THEN "check"
                                                             ELSE "none"]
    /\ UNCHANGED <<fsDirs, fsFiles, cloud_files, cleaner, earlyChecked>>
    /\ UNCHANGED nonCleanVars

\* file_cleaner.py:75-87 _delete_file: os.remove in a pool thread.
FC_DeleteFile(f) ==
    /\ cpc = "gather"
    /\ f \in pendingDel
    /\ fsFiles' = fsFiles \ {f}
    /\ pendingDel' = pendingDel \ {f}
    /\ UNCHANGED <<fsDirs, cloud_files, cleaner, cpc, dirTask, earlyChecked>>
    /\ UNCHANGED nonCleanVars

\* Work of this pass still pending beneath directory d.
PendingBeneath(d) ==
    \/ \E f \in pendingDel : IsUnder(f, d)
    \/ \E e \in AllDirs : IsUnder(e, d) /\ dirTask[e] \in {"check", "rmdir"}

\* file_cleaner.py:124-137 _is_directory_empty: len(os.listdir(d)) == 0,
\* False on OSError (the directory is gone).
IsDirectoryEmpty(d) == d \in fsDirs /\ ListDir(d, fsDirs, fsFiles) = {}

\* file_cleaner.py:116-117 the emptiness check of _delete_empty_dir, run in
\* a pool thread.
FC_CheckEmpty(d) ==
    /\ cpc = "gather"
    /\ dirTask[d] = "check"
    /\ dirTask' = [dirTask EXCEPT ![d] = IF IsDirectoryEmpty(d) THEN "rmdir"
                                                               ELSE "done"]
    /\ earlyChecked' = IF PendingBeneath(d) THEN earlyChecked \cup {d}
                                             ELSE earlyChecked
    /\ UNCHANGED <<fsDirs, fsFiles, cloud_files, cleaner, cpc, pendingDel>>
    /\ UNCHANGED nonCleanVars

\* file_cleaner.py:119-122 os.rmdir in a pool thread; OSError (not empty,
\* not there) is logged.
FC_Rmdir(d) ==
    /\ cpc = "gather"
    /\ dirTask[d] = "rmdir"
    /\ fsDirs' = IF IsDirectoryEmpty(d) THEN fsDirs \ {d} ELSE fsDirs
    /\ dirTask' = [dirTask EXCEPT ![d] = "done"]
    /\ UNCHANGED <<fsFiles, cloud_files, cleaner, cpc, pendingDel, earlyChecked>>
    /\ UNCHANGED nonCleanVars

\* file_cleaner.py:46-51 asyncio.gather returns once every task has ended.
FC_Finish ==
    /\ cpc = "gather"
    /\ pendingDel = {}
    /\ \A d \in AllDirs : dirTask[d] \in {"none", "done"}
    /\ cpc' = "done"
    /\ UNCHANGED <<fsDirs, fsFiles, cloud_files, cleaner, pendingDel, dirTask,
                   earlyChecked>>
    /\ UNCHANGED nonCleanVars

(***************************************************************************)
(* FileManager.clean_local_files (file_manager.py)                         *)
(***************************************************************************)

RECURSIVE CleanRecursive(_, _)
RECURSIVE CleanEntries(_, _)

\* file_manager.py:111-114 the loop over the entries of a directory.
CleanEntries(entries, st) ==
    IF entries = {} THEN st
    ELSE LET e == CHOOSE x \in entries : TRUE
         IN  CleanEntries(entries \ {e}, CleanRecursive(e, st))

\* file_manager.py:88-123 _clean_recursive on the tree st = [dirs, files]:
\* a non-directory is removed unless its path is a key of cloud_files; a
\* directory has its entries cleaned first and is removed if then empty.
CleanRecursive(path, st) ==
    IF path \notin st.dirs
    THEN IF path \notin cloud_files
         THEN [st EXCEPT !.files = @ \ {path}]
         ELSE st
    ELSE LET st2 == CleanEntries(ListDir(path, st.dirs, st.files), st)
         IN  IF ListDir(path, st2.dirs, st2.files) = {}
             THEN [st2 EXCEPT !.dirs = @ \ {path}]
             ELSE st2

\* file_manager.py:70-86 clean_local_files: every step is awaited in
\* sequence, so the pass is one atomic step of this model.
FM_CleanLocalFiles ==
    /\ cleaner = "FileManager"
    /\ cpc = "start"
    /\ LET st == IF LocalDir \in fsDirs
                 THEN CleanRecursive(LocalDir, [dirs |-> fsDirs, files |-> fsFiles])
                 ELSE [dirs |-> fsDirs, files |-> fsFiles]
       IN  /\ fsDirs' = st.dirs
           /\ fsFiles' = st.files
    /\ cpc' = "done"
    /\ UNCHANGED <<cloud_files, cleaner, pendingDel, dirTask, earlyChecked>>
    /\ UNCHANGED nonCleanVars

CleanNext ==
    \/ FC_Start
    \/ \E f \in AllFiles : FC_DeleteFile(f)
    \/ \E d \in AllDirs : FC_CheckEmpty(d)
    \/ \E d \in AllDirs : FC_Rmdir(d)
    \/ FC_Finish
    \/ FM_CleanLocalFiles

(***************************************************************************)
(* Claims about the cleaners                                               *)
(***************************************************************************)

\* C4: after reconcile(T, M) completes, every file remaining under the local
\* root has its path as a key of M, and every directory remaining (the local
\* root included) contains at least one descendant file.
C4_ReconcilePostcondition ==
    cpc = "done" =>
        /\ \A f \in fsFiles : f \in cloud_files
        /\ \A d \in fsDirs : \E f \in fsFiles : IsUnder(f, d)

\* C5: in every interleaving of FileCleaner's deletion tasks a directory's
\* emptiness check runs only after every deletion beneath it has completed,
\* so a directory emptied by the pass is removed in the same pass.
C5_ChildrenBeforeParents ==
    /\ earlyChecked = {}
    /\ (cleaner = "FileCleaner" /\ cpc = "done") =>
          \A d \in AllDirs : dirTask[d] = "done" => ~IsDirectoryEmpty(d)


(***************************************************************************)
(* Access-token cache and request wrappers (cloud_api.py)                  *)
(***************************************************************************)

\* Jobs of the configuration and the client_id each resolves to
\* (config_manager.get("client_id", job_id=job_id)): j1 and j2 share one.
TokenJobs == {"j1", "j2", "j3"}

Clients == {"c1", "c2"}

ClientOf(j) == IF j = "j3" THEN "c2" ELSE "c1"

\* Coroutines that run on the event loop, and the jobs each one works for
\* (e.g. one heartbeat task per job, scheduler.py:121-122).
Tasks == {"t1", "t2"}

JobsOf(k) == IF k = "t1" THEN {"j1"} ELSE {"j2", "j3"}

\* Operations with the retry wrapper, and the single-attempt heartbeat.
RetryOps == {"get_file_list", "get_file_info", "get_file_download_url"}

\* t1 runs the operations of a job run, t2 the heartbeats.
OpsOf(k) == IF k = "t1" THEN RetryOps ELSE {"heartbeat"}

\* cloud_api.py:189  timedelta(days=1), in hours.
OneDay == 24

\* cloud_api.py:273, 317, 339  `if max_retries < 3`.
MaxRetries == 3

\* Bounds: the clock, the tokens the auth endpoint issues, the operations
\* started, the tokens the vendor revokes.
MaxTime == 1
MaxTokens == 4
MaxOps == 2
MaxRevoked == 1

\* Lifetimes (hours) the auth endpoint gives a new token.
TokenLifetimes == {OneDay + 1}

NoFile == [accessToken |-> 0, expiredAt |-> 0]

\* Contents of a token file that are not a usable record, told apart by what
\* reading them raises in get_access_token: a file of zero bytes
\* (json.JSONDecodeError, utils.py:196), a JSON object without the key
\* expiredAt (KeyError, cloud_api.py:186), and a record whose expiredAt
\* datetime.fromisoformat cannot parse (ValueError, cloud_api.py:186).
EmptyFile == [accessToken |-> 0, expiredAt |-> -1]

MissingKeys == [accessToken |-> 1, expiredAt |-> -2]

BadExpiry == [accessToken |-> 1, expiredAt |-> -3]

\* The file holds one complete {accessToken, expiredAt} record.
IsRecord(file) == file.accessToken > 0 /\ file.expiredAt >= 0

NoToken == 0

\* Expiry times a cache file found at the start can hold: one day from the
\* start exactly, and an hour more.
FirstExpiries == {OneDay, OneDay + 1}

IdleTask == [op |-> "none", job |-> "none", tpc |-> "idle",
             current_time |-> 0, token |-> NoToken, fromCache |-> FALSE,
             cacheExp |-> 0, token_response |-> NoFile, max_retries |-> 0,
             attempts |-> 0, rejectAt |-> 0, result |-> "none",
             resultAttempt |-> 0, invAtStart |-> NoToken,
             cacheRaised |-> FALSE]

TokenInit ==
    /\ impl \in {"cloud_api", "main"}
    /\ now = 0
    /\ \E f \in {NoFile, EmptyFile, MissingKeys, BadExpiry}
                 \cup {[accessToken |-> 1, expiredAt |-> e] : e \in FirstExpiries} :
          cacheFile = [c \in Clients |-> IF c = "c1" THEN f ELSE NoFile]
    /\ useCache = [j \in TokenJobs |-> "unset"]
    /\ nextToken = 1
    /\ revoked = {}
    /\ invalidated = [c \in Clients |-> NoToken]
    /\ task = [k \in Tasks |-> IdleTask]
    /\ nops = 0

\* The token part at rest, for the specifications that do not run it.
TokenIdle ==
    /\ impl = "cloud_api"
    /\ now = 0
    /\ cacheFile = [c \in Clients |-> NoFile]
    /\ useCache = [j \in TokenJobs |-> "unset"]
    /\ nextToken = 1
    /\ revoked = {}
    /\ invalidated = [c \in Clients |-> NoToken]
    /\ task = [k \in Tasks |-> IdleTask]
    /\ nops = 0

\* The clock advances by an hour; the seconds an operation takes are not
\* counted, so it advances between operations.
Tick ==
    /\ now < MaxTime
    /\ \A k \in Tasks : task[k].tpc \in {"idle", "done"}
    /\ now' = now + 1
    /\ UNCHANGED <<impl, cacheFile, useCache, nextToken, revoked, invalidated,
                   task, nops>>
    /\ UNCHANGED nonTokenVars

\* The vendor stops accepting a token it has issued; the tokens of interest
\* are those a cache file holds.
Revoke(tok) ==
    /\ \E c \in Clients : IsRecord(cacheFile[c]) /\ cacheFile[c].accessToken = tok
    /\ tok \notin revoked
    /\ Cardinality(revoked) < MaxRevoked
    /\ revoked' = revoked \cup {tok}
    /\ UNCHANGED <<impl, now, cacheFile, useCache, nextToken, invalidated,
                   task, nops>>
    /\ UNCHANGED nonTokenVars

\* A coroutine calls get_file_list / get_file_info / get_file_download_url /
\* heartbeat for a job (cloud_api.py:221, 251, 304, 326).
StartOp(k, op, j) ==
    /\ impl = "cloud_api"
    /\ task[k].tpc \in {"idle", "done"}
    /\ nops < MaxOps
    /\ task' = [task EXCEPT ![k] = [IdleTask EXCEPT !.op = op, !.job = j,
                                                    !.tpc = "g_start"]]
    /\ nops' = nops + 1
    /\ UNCHANGED <<impl, now, cacheFile, useCache, nextToken, revoked,
                   invalidated>>
    /\ UNCHANGED nonTokenVars

\* cloud_api.py:180  global_job_cache_tokens.get(job_id, default_use_cache_token)
UseCache(j) == useCache[j] # "false"

\* cloud_api.py:85, 173-185: http_123_request enters get_access_token, which
\* runs up to its first suspension: the job's cache flag is read and, when
\* set, the clock is sampled and the cache file read is started.
GStart(k) ==
    /\ task[k].tpc = "g_start"
    /\ LET j == task[k].job
           c == ClientOf(j)
       IN  /\ task' = [task EXCEPT ![k].attempts = @ + 1,
                                   ![k].invAtStart = invalidated[c],
                                   ![k].token = NoToken,
                                   ![k].fromCache = FALSE,
                                   ![k].current_time = IF UseCache(j) THEN now ELSE @,
                                   ![k].tpc = IF UseCache(j) THEN "g_read" ELSE "g_auth"]
           /\ invalidated' = [invalidated EXCEPT ![c] = NoToken]
    /\ UNCHANGED <<impl, now, cacheFile, useCache, nextToken, revoked, nops>>
    /\ UNCHANGED nonTokenVars

\* cloud_api.py:189  `expire_time > current_time + timedelta(days=1)`
CacheValid(expire_time, current_time) == expire_time > current_time + OneDay

\* What the operation does with an exception of http_123_request:
\* cloud_api.py:272-285, 316-323 retry while max_retries < 3, then raise;
\* cloud_api.py:338-345 get_file_download_url retries alike, then only logs
\* and returns None; cloud_api.py:245-248 heartbeat makes no retry.
OnException(t) ==
    IF t.op = "heartbeat"
    THEN [t EXCEPT !.tpc = "done", !.result = "raised"]
    ELSE IF t.max_retries < MaxRetries
         THEN [t EXCEPT !.tpc = "retry_sleep", !.max_retries = @ + 1]
         ELSE [t EXCEPT !.tpc = "done",
                        !.result = IF t.op = "get_file_download_url"
                                   THEN "returned_none" ELSE "raised"]

\* cloud_api.py:195  `except (FileNotFoundError, json.JSONDecodeError, KeyError)`
CaughtAsMiss(file) == file \in {NoFile, EmptyFile, MissingKeys}

\* cloud_api.py:185-196: the cache file is read; a missing file, invalid
\* JSON and a missing key are a miss (the exception is caught); the
\* ValueError of an unparsable expiredAt is not caught and leaves
\* get_access_token and http_123_request; a valid record is served, an
\* expiring one is to be removed.
GRead(k) ==
    /\ task[k].tpc = "g_read"
    /\ LET file == cacheFile[ClientOf(task[k].job)]
       IN  task' = [task EXCEPT ![k] =
              IF CaughtAsMiss(file)
              THEN [@ EXCEPT !.tpc = "g_auth"]
              ELSE IF file = BadExpiry
              THEN OnException([@ EXCEPT !.cacheRaised = TRUE])
              ELSE IF CacheValid(file.expiredAt, @.current_time)
                   THEN [@ EXCEPT !.token = file.accessToken,
                                  !.fromCache = TRUE,
                                  !.cacheExp = file.expiredAt,
                                  !.tpc = "send"]
                   ELSE [@ EXCEPT !.tpc = "g_exists"]]
    /\ UNCHANGED <<impl, now, cacheFile, useCache, nextToken, revoked,
                   invalidated, nops>>
    /\ UNCHANGED nonTokenVars

\* cloud_api.py:193  `if await async_file_exists(cache_file)`
GExists(k) ==
    /\ task[k].tpc = "g_exists"
    /\ task' = [task EXCEPT ![k].tpc =
                  IF cacheFile[ClientOf(task[k].job)] # NoFile THEN "g_remove"
                                                               ELSE "g_auth"]
    /\ UNCHANGED <<impl, now, cacheFile, useCache, nextToken, revoked,
                   invalidated, nops>>
    /\ UNCHANGED nonTokenVars

\* cloud_api.py:194-196, utils.py:74-87  async_remove_file removes the file;
\* the FileNotFoundError of a file already gone is caught; any other OSError
\* of os.remove is re-raised by utils.py:87, is not caught by
\* cloud_api.py:195 and leaves get_access_token.
GRemove(k) ==
    /\ task[k].tpc = "g_remove"
    /\ \/ /\ cacheFile' = [cacheFile EXCEPT ![ClientOf(task[k].job)] = NoFile]
          /\ task' = [task EXCEPT ![k].tpc = "g_auth"]
       \/ /\ cacheFile[ClientOf(task[k].job)] # NoFile
          /\ task' = [task EXCEPT ![k] = OnException([@ EXCEPT !.cacheRaised = TRUE])]
          /\ UNCHANGED cacheFile
    /\ UNCHANGED <<impl, now, useCache, nextToken, revoked, invalidated, nops>>
    /\ UNCHANGED nonTokenVars

\* cloud_api.py:198-199, 143-164 auth_access_token: the endpoint issues a
\* token, or the call fails and the error leaves get_access_token and
\* http_123_request.
GAuth(k) ==
    /\ task[k].tpc = "g_auth"
    /\ \/ /\ nextToken < MaxTokens
          /\ \E life \in TokenLifetimes :
                task' = [task EXCEPT ![k].token_response =
                                        [accessToken |-> nextToken + 1,
                                         expiredAt |-> now + life],
                                     ![k].tpc = "g_write"]
          /\ nextToken' = nextToken + 1
       \/ /\ task' = [task EXCEPT ![k] = OnException(@)]
          /\ UNCHANGED nextToken
    /\ UNCHANGED <<impl, now, cacheFile, useCache, revoked, invalidated, nops>>
    /\ UNCHANGED nonTokenVars

\* cloud_api.py:202, utils.py:176  aiofiles.open(file_path, "w") truncates the
\* token file in place (or fails with IOError and the file keeps its
\* content); the content is written by the next step.
GOpen(k) ==
    /\ task[k].tpc = "g_write"
    /\ \/ /\ cacheFile' = [cacheFile EXCEPT ![ClientOf(task[k].job)] = EmptyFile]
          /\ task' = [task EXCEPT ![k].tpc = "g_flush"]
       \/ /\ UNCHANGED cacheFile
          /\ task' = [task EXCEPT ![k].tpc = "g_ioerror"]
    /\ UNCHANGED <<impl, now, useCache, nextToken, revoked, invalidated, nops>>
    /\ UNCHANGED nonTokenVars

\* cloud_api.py:200-215, utils.py:177: the record is written through the open
\* handle (or after the IOError of the open nothing is written), the job's
\* flag ends True, and the new token is returned to http_123_request.
\* The handler of line 209 sets the flag to False (line 212) and line 214,
\* which follows the try statement, sets it to True on every path; the
\* synchronous get_access_token of api.py:199-215 has the same statements.
GWrite(k) ==
    /\ task[k].tpc \in {"g_flush", "g_ioerror"}
    /\ LET j == task[k].job
       IN  /\ IF task[k].tpc = "g_flush"
              THEN cacheFile' = [cacheFile EXCEPT ![ClientOf(j)] = task[k].token_response]
              ELSE UNCHANGED cacheFile
           /\ useCache' = [useCache EXCEPT ![j] = "true"]
           /\ task' = [task EXCEPT ![k].token = task[k].token_response.accessToken,
                                   ![k].fromCache = FALSE,
                                   ![k].tpc = "send"]
    /\ UNCHANGED <<impl, now, nextToken, revoked, invalidated, nops>>
    /\ UNCHANGED nonTokenVars

\* cloud_api.py:120-123: the response code 401 clears the flag of the job
\* that made the request.
InvalidateOn401(j) == [useCache EXCEPT ![j] = "false"]

\* cloud_api.py:92-140: the request is sent with the token.  Code 0 returns
\* the response to the operation, which returns it (cloud_api.py:271, 315,
\* 337); code 401 clears the job's cache flag and raises; any other code
\* (after a 30 s sleep) and a transport error raise.
Send(k) ==
    /\ task[k].tpc = "send"
    /\ LET j == task[k].job
       IN  \/ /\ task[k].token \notin revoked
              /\ task' = [task EXCEPT ![k].tpc = "done", ![k].result = "ok",
                                      ![k].resultAttempt = task[k].attempts]
              /\ UNCHANGED <<useCache, invalidated>>
           \/ /\ task[k].token \in revoked
              /\ useCache' = InvalidateOn401(j)
              /\ invalidated' = [invalidated EXCEPT ![ClientOf(j)] = task[k].token]
              /\ task' = [task EXCEPT ![k] =
                            OnException([@ EXCEPT !.rejectAt =
                                            IF @ = 0 THEN task[k].attempts ELSE @])]
           \/ /\ task' = [task EXCEPT ![k] = OnException(@)]
              /\ UNCHANGED <<useCache, invalidated>>
    /\ UNCHANGED <<impl, now, cacheFile, nextToken, revoked, nops>>
    /\ UNCHANGED nonTokenVars

\* cloud_api.py:274-283, 318-321, 340-343: after asyncio.sleep(5) the
\* operation calls itself again.
RetryWake(k) ==
    /\ task[k].tpc = "retry_sleep"
    /\ task' = [task EXCEPT ![k].tpc = "g_start"]
    /\ UNCHANGED <<impl, now, cacheFile, useCache, nextToken, revoked,
                   invalidated, nops>>
    /\ UNCHANGED nonTokenVars

(***************************************************************************)
(* get_access_token of main.py                                             *)
(***************************************************************************)

\* main.py:101  `if expire_time > current_time`
MainCacheValid(expire_time, current_time) == expire_time > current_time

\* main.py:83-128, a synchronous function: the cache file is read and a
\* record that passes the test of line 101 is served; for any other record
\* line 103 evaluates timedelta, which main.py does not import, and the
\* NameError leaves the function, as does the ValueError of an unparsable
\* expiredAt; a missing file, invalid JSON and a missing key (line 105) lead
\* to a new token, which is written and returned.
MainGetAccessToken(k, j) ==
    /\ impl = "main"
    /\ task[k].tpc \in {"idle", "done"}
    /\ nops < MaxOps
    /\ nops' = nops + 1
    /\ LET c == ClientOf(j)
           file == cacheFile[c]
           t0 == [IdleTask EXCEPT !.op = "main_get_access_token", !.job = j,
                                  !.current_time = now, !.tpc = "done"]
       IN  IF IsRecord(file) /\ MainCacheValid(file.expiredAt, now)
           THEN /\ task' = [task EXCEPT ![k] =
                              [t0 EXCEPT !.token = file.accessToken,
                                         !.fromCache = TRUE,
                                         !.cacheExp = file.expiredAt,
                                         !.result = "ok"]]
                /\ UNCHANGED <<cacheFile, nextToken>>
           ELSE IF IsRecord(file) \/ file = BadExpiry
                THEN /\ task' = [task EXCEPT ![k] = [t0 EXCEPT !.result = "raised"]]
                     /\ UNCHANGED <<cacheFile, nextToken>>
                ELSE /\ nextToken < MaxTokens
                     /\ \E life \in TokenLifetimes :
                          LET resp == [accessToken |-> nextToken + 1,
                                       expiredAt |-> now + life]
                          IN  /\ cacheFile' = [cacheFile EXCEPT ![c] = resp]
                              /\ task' = [task EXCEPT ![k] =
                                            [t0 EXCEPT !.token = resp.accessToken,
                                                       !.token_response = resp,
                                                       !.result = "ok"]]
                     /\ nextToken' = nextToken + 1
    /\ UNCHANGED <<impl, now, useCache, revoked, invalidated>>
    /\ UNCHANGED nonTokenVars

TokenNext ==
    \/ Tick
    \/ \E tok \in 1..MaxTokens : Revoke(tok)
    \/ \E k \in Tasks : \E op \in OpsOf(k), j \in JobsOf(k) : StartOp(k, op, j)
    \/ \E k \in Tasks : GStart(k)
    \/ \E k \in Tasks : GRead(k)
    \/ \E k \in Tasks : GExists(k)
    \/ \E k \in Tasks : GRemove(k)
    \/ \E k \in Tasks : GAuth(k)
    \/ \E k \in Tasks : GOpen(k)
    \/ \E k \in Tasks : GWrite(k)
    \/ \E k \in Tasks : Send(k)
    \/ \E k \in Tasks : RetryWake(k)
    \/ \E k \in Tasks : \E j \in JobsOf(k) : MainGetAccessToken(k, j)

(***************************************************************************)
(* Claims about the access token and the request wrappers                  *)
(***************************************************************************)

\* The get_access_token call of task k has returned a token.
HasToken(k) == task[k].token # NoToken

\* C6: get_token returns the cached token only if its expiry is strictly
\* later than now + 1 day; in every other case the returned token is the one
\* the auth endpoint has just issued, so a cached token expiring within one
\* day is never served.
C6_CacheServedOnlyBeyondOneDay ==
    \A k \in Tasks :
        HasToken(k) =>
            IF task[k].fromCache
            THEN task[k].cacheExp > task[k].current_time + OneDay
            ELSE task[k].token = task[k].token_response.accessToken

\* C7: after a 401 has invalidated the cached token of a client_id, the next
\* get_token call for that client_id, whichever job makes it, does not
\* return the rejected token from the cache.
C7_NoStaleTokenAfter401 ==
    \A k \in Tasks :
        (HasToken(k) /\ task[k].invAtStart # NoToken) =>
            ~(task[k].fromCache /\ task[k].token = task[k].invAtStart)

\* Tasks that are between the decision to refresh the token of client c and
\* the end of the token-file write.
Refreshing(c) ==
    {k \in Tasks : task[k].tpc \in {"g_auth", "g_write", "g_flush", "g_ioerror"}
                   /\ ClientOf(task[k].job) = c}

\* C8: refreshes for the same client_id are serialized: at no time are two
\* get_token calls of one client_id both calling the auth endpoint or
\* writing the token file.
C8_RefreshSerializedPerClient ==
    \A c \in Clients : Cardinality(Refreshing(c)) <= 1

\* C9: when a request is answered with code 401 the job's cache flag is
\* cleared and the operation makes no further attempt: the attempt that was
\* rejected is its only one and the error reaches the caller.
C9_NoRetryAfter401 ==
    \A k \in Tasks :
        task[k].rejectAt # 0 =>
            /\ task[k].attempts = 1
            /\ task[k].tpc = "done"
            /\ task[k].result = "raised"

\* C10: get_file_list, get_file_info and get_file_download_url retry a
\* failing call at most 3 times and then surface a terminal error; a call
\* that succeeds returns the result of the succeeding attempt, which is the
\* last one made.
C10_BoundedRetriesThenError ==
    \A k \in Tasks :
        task[k].op \in RetryOps =>
            /\ task[k].max_retries <= MaxRetries
            /\ task[k].attempts <= MaxRetries + 1
            /\ task[k].tpc = "done" =>
                  \/ /\ task[k].result = "ok"
                     /\ task[k].resultAttempt = task[k].attempts
                  \/ /\ task[k].result = "raised"
                     /\ task[k].attempts = MaxRetries + 1

\* C11: get_token never raises because of the cache: every error while
\* reading, parsing or evaluating the token file, or while evicting it, is a
\* cache miss that falls through to a refresh.
C11_CacheErrorsAreMisses ==
    \A k \in Tasks : ~task[k].cacheRaised

\* C12: the token file of a client is replaced atomically: every step that
\* changes it leaves it absent or holding one complete record, never a
\* truncated one.
C12_TokenFileReplacedAtomically ==
    [][\A c \in Clients :
          cacheFile'[c] # cacheFile[c] =>
              (cacheFile'[c] = NoFile \/ IsRecord(cacheFile'[c]))]_vars

\* C34: when writing the refreshed token to the cache file fails, the call
\* ends with the job marked as not using the cache, so that the job's next
\* get_access_token call does not read the cache file.
C34_WriteFailureDisablesCache ==
    [][\A k \in Tasks :
          (task[k].tpc = "g_ioerror" /\ task'[k].tpc # "g_ioerror") =>
              useCache'[task[k].job] = "false"]_vars

(***************************************************************************)
(* Traversal of the remote tree                                            *)
(***************************************************************************)
\* The remote tree of the job.  File ids are numbered in depth-first
\* pre-order: the root folder 1 lists <<2, 5>>, <<6>>, <<7>> on three pages,
\* its subfolder 2 lists <<3>>, <<4>> on two.
RootFolder == 1

Entries == 2..7

Pages(f) ==
    IF f = 1 THEN << <<2, 5>>, <<6>>, <<7>> >>
    ELSE IF f = 2 THEN << <<3>>, <<4>> >>
    ELSE << >>

\* item["type"] (1 is a folder) and the class of the file extension
\* (strm_generator.py:151-171): a video gets a strm file, an image is
\* downloaded when the configuration enables it, any other file is skipped.
Kind(e) ==
    IF e = 2 THEN "folder"
    ELSE IF e \in {3, 5} THEN "video"
    ELSE IF e \in {4, 7} THEN "image"
    ELSE "other"

\* The local path of an entry: the folder path, the strm file of a video,
\* the target file of any other file (strm_generator.py:117-123, 144-148,
\* 192-195, 219-220).
LocalPath(e) ==
    IF e = 2 THEN "lib/s1"
    ELSE IF e = 3 THEN "lib/s1/b.strm"
    ELSE IF e = 4 THEN "lib/s1/b.jpg"
    ELSE IF e = 5 THEN "lib/a.strm"
    ELSE IF e = 6 THEN "lib/x.txt"
    ELSE "lib/p.jpg"

FilePaths == {LocalPath(e) : e \in Entries \ {2}}

\* last_file_id = None (strm_generator.py:83), and the end sentinel
\* (strm_generator.py:97).
NoCursor == -2

EndCursor == -1

\* Values the server may return as the lastFileId of a first page; the
\* later pages of a folder return the following values.
CursorStarts == {0, 1, 7}

\* Bounds: runs, errors in one behaviour, list requests in one run.
MaxRuns == 2
MaxErrors == 1
MaxRequests == 8

\* The lastFileId returned with page i of folder f.
LastFileId(f, i) ==
    IF i = Len(Pages(f)) THEN EndCursor ELSE firstCursor + i - 1

\* cloud_api.py:264-267: get_file_list appends `&lastFileId=` to the request
\* only `if lastFileId`, so None and 0 both send no cursor.
CursorSent(last_file_id) == last_file_id # NoCursor /\ last_file_id # 0

\* The page the server answers with: the first one to a request without
\* cursor, else the one that follows the page that returned the cursor.
PageIndex(last_file_id) ==
    IF CursorSent(last_file_id) THEN last_file_id - firstCursor + 2 ELSE 1

Frame(f) == [folder |-> f, last_file_id |-> NoCursor, page |-> 0,
             todo |-> << >>, phase |-> "list"]

NoErrs == [r \in 1..MaxRuns |-> 0]

RECURSIVE ErrsUpTo(_)
ErrsUpTo(r) == IF r = 0 THEN 0 ELSE errs[r] + ErrsUpTo(r - 1)

ErrTotal == ErrsUpTo(MaxRuns)

TravInit ==
    /\ traverser \in {"StrmGenerator", "FileTraverser"}
    /\ config \in [overwrite : BOOLEAN, image : BOOLEAN, clean_local : BOOLEAN]
    /\ firstCursor \in CursorStarts
    /\ \E old \in SUBSET {"lib/s1/b.strm", "lib/s1/b.jpg"} :
          local = [p \in FilePaths |-> IF p \in old THEN "old" ELSE "absent"]
    /\ snapshot = local
    /\ manifest = {}
    /\ stack = << >>
    /\ tlog = << >>
    /\ rpc = "idle"
    /\ run = 0
    /\ writes = 0
    /\ urlReqs = {}
    /\ errs = NoErrs
    /\ failed = {}
    /\ persisted = {}
    /\ cleanerCalled = FALSE

\* The traversal part at rest, for the specifications that do not run it.
TravIdle ==
    /\ traverser = "StrmGenerator"
    /\ config = [overwrite |-> FALSE, image |-> FALSE, clean_local |-> FALSE]
    /\ firstCursor = 1
    /\ local = [p \in FilePaths |-> "absent"]
    /\ snapshot = local
    /\ manifest = {}
    /\ stack = << >>
    /\ tlog = << >>
    /\ rpc = "idle"
    /\ run = 0
    /\ writes = 0
    /\ urlReqs = {}
    /\ errs = NoErrs
    /\ failed = {}
    /\ persisted = {}
    /\ cleanerCalled = FALSE
Top == stack[Len(stack)]

SetTop(fr) == [stack EXCEPT ![Len(stack)] = fr]

Pop == SubSeq(stack, 1, Len(stack) - 1)

\* Entries of tlog: a list request for folder f sent with cursor c (NoCursor
\* when none is sent), answered with page i or failed; and item e of page i
\* of folder f taken up by _process_file_list.
ListEvent(f, c, i, ok) ==
    [kind |-> "list", folder |-> f, arg |-> c, page |-> i, ok |-> ok]

EntryEvent(f, e, i) ==
    [kind |-> "entry", folder |-> f, arg |-> e, page |-> i, ok |-> TRUE]

NumRequests == Cardinality({n \in DOMAIN tlog : tlog[n].kind = "list"})

\* An error may still occur within the bound.
MayFail == ErrTotal < MaxErrors

Erred == [errs EXCEPT ![run] = @ + 1]

\* An exception that leaves the whole traversal instead of one call.
AfterExceptionPropagates == << >>

\* strm_generator.py:101-102  `except Exception as e: logger.error(...)`: the
\* traverse_folders call in which the exception occurred returns normally
\* to its caller.
AfterException == Pop

\* strm_generator.py:61-80: a run calls traverse_folders() on a new
\* StrmGenerator; with parent_path == "" the root's name is fetched with
\* get_file_info, whose exception ends the traversal in the except of
\* line 101.
SG_Start ==
    /\ traverser = "StrmGenerator"
    /\ rpc = "idle"
    /\ run < MaxRuns
    /\ run' = run + 1
    /\ rpc' = "traversing"
    /\ snapshot' = local
    /\ manifest' = {}
    /\ tlog' = << >>
    /\ writes' = 0
    /\ urlReqs' = {}
    /\ \/ /\ stack' = <<Frame(RootFolder)>>
          /\ failed' = {}
          /\ UNCHANGED errs
       \/ /\ MayFail
          /\ stack' = << >>
          /\ failed' = {RootFolder}
          /\ errs' = [errs EXCEPT ![run + 1] = @ + 1]
    /\ UNCHANGED <<traverser, config, firstCursor, local, persisted, cleanerCalled>>
    /\ UNCHANGED nonTravVars

\* strm_generator.py:84-93: one page of the folder is requested with the
\* current last_file_id; an exception of get_file_list is caught by the
\* except of this folder's call (line 101), which logs and returns.
SG_List ==
    /\ rpc = "traversing"
    /\ stack # << >>
    /\ Top.phase = "list"
    /\ NumRequests < MaxRequests
    /\ LET fr == Top
           c == IF CursorSent(fr.last_file_id) THEN fr.last_file_id ELSE NoCursor
           i == PageIndex(fr.last_file_id)
       IN  \/ /\ tlog' = Append(tlog, ListEvent(fr.folder, c, i, TRUE))
              /\ stack' = SetTop([fr EXCEPT !.page = i,
                                            !.todo = Pages(fr.folder)[i],
                                            !.phase = "entries"])
              /\ UNCHANGED <<errs, failed>>
           \/ /\ MayFail
              /\ tlog' = Append(tlog, ListEvent(fr.folder, c, i, FALSE))
              /\ stack' = AfterException
              /\ errs' = Erred
              /\ failed' = failed \cup {fr.folder}
    /\ UNCHANGED <<traverser, config, firstCursor, local, snapshot, manifest,
                   rpc, run, writes, urlReqs, persisted, cleanerCalled>>
    /\ UNCHANGED nonTravVars

\* A strm file written on every run.
WritesStrmAlways(p) == TRUE

\* strm_generator.py:201  `if not await async_file_exists(strm_path) or self.overwrite`
WritesStrm(p) == local[p] = "absent" \/ config.overwrite

\* A download that does not look at the target.
DownloadsAlways(p) == TRUE

\* strm_generator.py:223  `if not await async_file_exists(target_file)`
Downloads(p) == local[p] = "absent"

\* strm_generator.py:156-171: an image is downloaded when the configuration
\* enables images.
IsSkip(e) == Kind(e) = "other" \/ (Kind(e) = "image" /\ ~config.image)

\* A recursion that is started but not awaited: the folder is traversed
\* after the calls in progress have returned.
EnterDeferred(fr1, e) == <<Frame(e)>> \o SetTop(fr1)

\* strm_generator.py:127  `await self.traverse_folders(item["fileId"], process_path)`:
\* the call for the subfolder runs to its end before the loop over the
\* page's items goes on.
Enter(fr1, e) == Append(SetTop(fr1), Frame(e))

\* strm_generator.py:112-133, 135-235: the next item of the page.  A folder
\* is recorded and traverse_folders is entered for it.  A file is processed
\* and the path _process_file returns is recorded: the strm path of a video
\* (written when absent or overwrite is set; a failed write is logged), the
\* target of a download (fetched when absent; a failed download is logged),
\* and for any other file the default path of line 171.  An exception of
\* async_makedirs (lines 198, 225) is not caught there and ends the call of
\* the folder being listed.
SG_Entry ==
    /\ rpc = "traversing"
    /\ stack # << >>
    /\ Top.phase = "entries"
    /\ Top.todo # << >>
    /\ LET fr == Top
           e == Head(fr.todo)
           p == LocalPath(e)
           fr1 == [fr EXCEPT !.todo = Tail(fr.todo)]
           recorded == manifest \cup {<<p, e>>}
           aborted == /\ MayFail
                      /\ stack' = AfterException
                      /\ errs' = Erred
                      /\ failed' = failed \cup {fr.folder}
                      /\ UNCHANGED <<manifest, local, writes, urlReqs>>
       IN  /\ tlog' = Append(tlog, EntryEvent(fr.folder, e, fr.page))
           /\ IF Kind(e) = "folder"
              THEN /\ manifest' = recorded
                   /\ stack' = Enter(fr1, e)
                   /\ UNCHANGED <<local, writes, urlReqs, errs, failed>>
              ELSE IF IsSkip(e)
              THEN /\ manifest' = recorded
                   /\ stack' = SetTop(fr1)
                   /\ UNCHANGED <<local, writes, urlReqs, errs, failed>>
              ELSE IF Kind(e) = "video"
              THEN \/ aborted
                   \/ /\ manifest' = recorded
                      /\ stack' = SetTop(fr1)
                      /\ UNCHANGED <<urlReqs, failed>>
                      /\ IF WritesStrm(p)
                         THEN \/ /\ local' = [local EXCEPT ![p] = "url"]
                                 /\ writes' = writes + 1
                                 /\ UNCHANGED errs
                              \/ /\ MayFail
                                 /\ local' = [local EXCEPT ![p] = "empty"]
                                 /\ writes' = writes + 1
                                 /\ errs' = Erred
                         ELSE UNCHANGED <<local, writes, errs>>
              ELSE IF Downloads(p)
              THEN \/ aborted
                   \/ /\ manifest' = recorded
                      /\ stack' = SetTop(fr1)
                      /\ urlReqs' = urlReqs \cup {e}
                      /\ UNCHANGED <<writes, failed>>
                      /\ \/ /\ local' = [local EXCEPT ![p] = "data"]
                            /\ UNCHANGED errs
                         \/ /\ MayFail
                            /\ errs' = Erred
                            /\ UNCHANGED local
              ELSE /\ manifest' = recorded
                   /\ stack' = SetTop(fr1)
                   /\ UNCHANGED <<local, writes, urlReqs, errs, failed>>
    /\ UNCHANGED <<traverser, config, firstCursor, snapshot, rpc, run,
                   persisted, cleanerCalled>>
    /\ UNCHANGED nonTravVars

\* strm_generator.py:97-99: after the page's items the loop ends on the
\* sentinel, else takes the page's lastFileId as the next cursor.
SG_PageEnd ==
    /\ rpc = "traversing"
    /\ stack # << >>
    /\ Top.phase = "entries"
    /\ Top.todo = << >>
    /\ LET fr == Top
           last == LastFileId(fr.folder, fr.page)
       IN  stack' = IF last = EndCursor
                    THEN Pop
                    ELSE SetTop([fr EXCEPT !.last_file_id = last, !.phase = "list"])
    /\ UNCHANGED <<traverser, config, firstCursor, local, snapshot, manifest,
                   tlog, rpc, run, writes, urlReqs, errs, failed, persisted,
                   cleanerCalled>>
    /\ UNCHANGED nonTravVars

\* The outermost traverse_folders call returns.
SG_Finish ==
    /\ rpc = "traversing"
    /\ stack = << >>
    /\ rpc' = "idle"
    /\ UNCHANGED <<traverser, config, firstCursor, local, snapshot, manifest,
                   stack, tlog, run, writes, urlReqs, errs, failed, persisted,
                   cleanerCalled>>
    /\ UNCHANGED nonTravVars

\* job_manager.py:32-38: run_job passes the guard and adds the job id to
\* running_jobs; a new run starts.
RunAdd ==
    /\ traverser = "FileTraverser"
    /\ rpc = "idle"
    /\ run < MaxRuns
    /\ run' = run + 1
    /\ rpc' = "traverse"
    /\ snapshot' = local
    /\ manifest' = {}
    /\ tlog' = << >>
    /\ writes' = 0
    /\ urlReqs' = {}
    /\ failed' = {}
    /\ cleanerCalled' = FALSE
    /\ UNCHANGED <<traverser, config, firstCursor, local, stack, errs, persisted>>
    /\ UNCHANGED nonTravVars

\* job_manager.py:41-44, file_traverser.py:45-99: run_job calls the
\* synchronous FileTraverser.traverse_folders, which calls the coroutine
\* functions get_file_info (line 67) and get_file_list (line 74) of
\* cloud_api without awaiting them: the coroutine object has no `.get` and
\* no `in`, the AttributeError or TypeError is caught by the except of
\* line 90 and handle_exception logs it, so the call returns with nothing
\* requested and self.cloud_files empty.
FT_Traverse ==
    /\ rpc = "traverse"
    /\ rpc' = "save"
    /\ manifest' = {}
    /\ failed' = {RootFolder}
    /\ errs' = Erred
    /\ UNCHANGED <<traverser, config, firstCursor, local, snapshot, stack,
                   tlog, run, writes, urlReqs, persisted, cleanerCalled>>
    /\ UNCHANGED nonTravVars

\* job_manager.py:46  save_file_ids(file_traverser.get_cloud_files(), job_id)
RunSave ==
    /\ rpc = "save"
    /\ persisted' = manifest
    /\ rpc' = "clean"
    /\ UNCHANGED <<traverser, config, firstCursor, local, snapshot, manifest,
                   stack, tlog, run, writes, urlReqs, errs, failed,
                   cleanerCalled>>
    /\ UNCHANGED nonTravVars

\* job_manager.py:48-53: FileCleaner(cloud_files).clean_local_files(dir) is
\* called whatever clean_local is set to; clean_local_files is a coroutine
\* function (file_cleaner.py:16) and run_job does not await what it returns,
\* so no statement of the cleaner runs.
RunClean ==
    /\ rpc = "clean"
    /\ cleanerCalled' = TRUE
    /\ rpc' = "finally"
    /\ UNCHANGED <<traverser, config, firstCursor, local, snapshot, manifest,
                   stack, tlog, run, writes, urlReqs, errs, failed, persisted>>
    /\ UNCHANGED nonTravVars

\* job_manager.py:58-59  `finally: self.running_jobs.remove(job_id)`
RunFinally ==
    /\ rpc = "finally"
    /\ rpc' = "idle"
    /\ UNCHANGED <<traverser, config, firstCursor, local, snapshot, manifest,
                   stack, tlog, run, writes, urlReqs, errs, failed, persisted,
                   cleanerCalled>>
    /\ UNCHANGED nonTravVars

\* job_manager.py:37, 59: the job id is in running_jobs from the add to the
\* remove of the finally block.
InRunningSet == rpc \in {"traverse", "save", "clean", "finally"}

TravNext ==
    \/ SG_Start
    \/ SG_List
    \/ SG_Entry
    \/ SG_PageEnd
    \/ SG_Finish
    \/ RunAdd
    \/ FT_Traverse
    \/ RunSave
    \/ RunClean
    \/ RunFinally

\* A run has finished and no other has started.
RunDone == rpc = "idle" /\ run > 0


(***************************************************************************)
(* Claims about the traversal and the run                                  *)
(***************************************************************************)

\* Items the current run has taken up.
Touched == {tlog[n].arg : n \in {m \in DOMAIN tlog : tlog[m].kind = "entry"}}

Keys(m) == {x[1] : x \in m}

\* C13: at the end of a traversal the manifest's keys are exactly the local
\* paths materialized during the run: every folder, strm file and downloaded
\* file is a key mapped to its file id, every key of a file is a file on
\* disk, and a skipped file has no entry.
C13_ManifestIsMaterializedPaths ==
    RunDone =>
        /\ \A m \in manifest :
              /\ ~IsSkip(m[2])
              /\ Kind(m[2]) # "folder" => local[m[1]] # "absent"
        /\ \A e \in Touched :
              (Kind(e) = "folder" \/ local[LocalPath(e)] # snapshot[LocalPath(e)])
                  => <<LocalPath(e), e>> \in manifest

\* C14: when a folder's listing failed during a run of run_job, the partial
\* manifest is persisted and reconciled against in the same run: a local
\* file that existed before the run and is not a key of the manifest is
\* deleted by the end of the run.
C14_FailedFolderFilesReconciled ==
    (RunDone /\ traverser = "FileTraverser" /\ failed # {}) =>
        /\ persisted = manifest
        /\ \A p \in FilePaths :
              (snapshot[p] # "absent" /\ p \notin Keys(persisted))
                  => local[p] = "absent"

\* C15: an error while listing or processing one folder aborts only that
\* folder: folders recorded before the error stay in the manifest, and when
\* the root's own call was not aborted the later items and pages of the root
\* (5, 6, 7) are all processed by the end of the traversal.
C15_ErrorAbortsOnlyItsBranch ==
    /\ \A e \in Touched : Kind(e) = "folder" => <<LocalPath(e), e>> \in manifest
    /\ (RunDone /\ traverser = "StrmGenerator" /\ RootFolder \notin failed)
          => {5, 6, 7} \subseteq Touched

C15_Witness ==
    /\ RunDone
    /\ traverser = "StrmGenerator"
    /\ failed = {2}
    /\ 7 \in Touched
    /\ <<"lib/s1", 2>> \in manifest

\* The list requests of the current run for folder f, in order.
ListsOf(f) == SelectSeq(tlog, LAMBDA ev : ev.kind = "list" /\ ev.folder = f)

TimesTouched(e) ==
    Cardinality({n \in DOMAIN tlog : tlog[n].kind = "entry" /\ tlog[n].arg = e})

\* C16: without errors, a folder of N pages gets exactly N list requests, the
\* k-th of which carries the cursor returned with page k-1 and is answered
\* with page k, and every item is processed exactly once, whatever cursor
\* values the server returns.
C16_ExactlyNPageRequests ==
    (traverser = "StrmGenerator" /\ run > 0 /\ errs[run] = 0) =>
        /\ \A f \in {1, 2} :
              LET L == ListsOf(f)
              IN  /\ Len(L) <= Len(Pages(f))
                  /\ \A k \in DOMAIN L :
                        /\ L[k].page = k
                        /\ L[k].arg = IF k = 1 THEN NoCursor
                                               ELSE LastFileId(f, k - 1)
                  /\ RunDone => Len(L) = Len(Pages(f))
        /\ \A e \in Entries : TimesTouched(e) <= 1
        /\ RunDone => Touched = Entries

\* The place of an event in the depth-first pre-order of the remote tree.
Rank(ev) ==
    IF ev.kind = "list"
    THEN IF ev.folder = 1 THEN (IF ev.page = 1 THEN 1 ELSE IF ev.page = 2 THEN 8 ELSE 10)
                          ELSE (IF ev.page = 1 THEN 3 ELSE 5)
    ELSE IF ev.arg = 2 THEN 2
    ELSE IF ev.arg = 3 THEN 4
    ELSE IF ev.arg = 4 THEN 6
    ELSE IF ev.arg = 5 THEN 7
    ELSE IF ev.arg = 6 THEN 9
    ELSE 11

\* Folder g is folder f or lies beneath it.
Within(g, f) == g = f \/ (f = 1 /\ g = 2)

StrmPaths == {LocalPath(e) : e \in {3, 5}}

C19_NoDownloadOfExistingTarget ==
    \A e \in Entries :
        (Kind(e) = "image" /\ snapshot[LocalPath(e)] # "absent") =>
            /\ e \notin urlReqs
            /\ local[LocalPath(e)] = snapshot[LocalPath(e)]

C19_Witness ==
    /\ RunDone
    /\ run = 2
    /\ config.image
    /\ snapshot["lib/p.jpg"] = "data"
    /\ snapshot["lib/s1/b.jpg"] = "old"
    /\ {4, 7} \subseteq Touched
    /\ urlReqs = {}

\* What is left for the reconciliation of the current manifest to delete:
\* local files that are not keys of it.
ToReconcile == {p \in FilePaths : local[p] # "absent" /\ p \notin Keys(manifest)}

\* C21: the steps of one run_job execution are ordered: no traversal request
\* or manifest entry while the job id is outside the running-set, the
\* manifest persisted before the reconciler is called, the reconciler given
\* this run's manifest, and the reconciliation finished (nothing left to
\* delete) when the job id is removed from the running-set.
C21_RunStepsInOrder ==
    traverser = "FileTraverser" =>
        /\ (rpc = "traverse" /\ run > 0) => (tlog = << >> /\ ~cleanerCalled)
        /\ rpc \in {"clean", "finally"} => persisted = manifest
        /\ cleanerCalled => persisted = manifest
        /\ (RunDone /\ cleanerCalled) => ToReconcile = {}

\* C20: run_job calls the reconciler only when clean_local is set, and with
\* clean_local unset a run deletes no local file.
C20_ReconcileOnlyWhenEnabled ==
    /\ cleanerCalled => config.clean_local
    /\ ~config.clean_local =>
          \A p \in FilePaths : snapshot[p] # "absent" => local[p] # "absent"

(***************************************************************************)
(* JobManager.run_all_jobs                                                 *)
(***************************************************************************)

\* Job lists the configuration can hold (config_manager.py:441-452).
JobLists == {<< >>, <<"X">>, <<"X", "Y">>, <<"Y", "X">>}

AllInit ==
    /\ apc = "idle"
    /\ job_ids \in JobLists
    /\ invoked = << >>

AllIdle ==
    /\ apc = "done"
    /\ job_ids = << >>
    /\ invoked = << >>

\* job_manager.py:65-76: run_all_jobs starts in the event-loop thread and
\* reads the job ids; with none configured it returns (through finally).
RA_Start ==
    /\ apc = "idle"
    /\ pc["loop"] = "idle"
    /\ apc' = IF job_ids = << >> THEN "finally" ELSE "for"
    /\ UNCHANGED <<job_ids, invoked>>
    /\ UNCHANGED <<jobVars, nonAllVars>>

\* job_manager.py:79-80  `for job_id in job_ids: self.run_job(job_id)`
RA_Invoke ==
    /\ apc = "for"
    /\ Len(invoked) < Len(job_ids)
    /\ pc["loop"] = "idle"
    /\ ncalls < MaxCalls
    /\ LET j == job_ids[Len(invoked) + 1]
       IN  /\ invoked' = Append(invoked, j)
           /\ cur' = [cur EXCEPT !["loop"] = j]
    /\ apc' = "in_job"
    /\ pc' = [pc EXCEPT !["loop"] = "guard"]
    /\ work' = [work EXCEPT !["loop"] = NoWork]
    /\ outcome' = [outcome EXCEPT !["loop"] = "none"]
    /\ seen' = [seen EXCEPT !["loop"] = {}]
    /\ ncalls' = ncalls + 1
    /\ UNCHANGED <<running_jobs, job_ids>>
    /\ UNCHANGED nonAllVars

\* An exception that leaves run_job ends the for loop.
RaiseEndsLoop == outcome["loop"] = "raised"

\* job_manager.py:80-84: run_job has come back; time.sleep(1) and the next
\* iteration, or the exception it raised leaves the for loop for the except
\* clause of run_all_jobs.
RA_Back ==
    /\ apc = "in_job"
    /\ pc["loop"] = "idle"
    /\ apc' = IF RaiseEndsLoop THEN "except" ELSE "for"
    /\ UNCHANGED <<job_ids, invoked>>
    /\ UNCHANGED <<jobVars, nonAllVars>>

\* job_manager.py:79, 84: the list is exhausted.
RA_LoopEnd ==
    /\ apc = "for"
    /\ Len(invoked) = Len(job_ids)
    /\ apc' = "finally"
    /\ UNCHANGED <<job_ids, invoked>>
    /\ UNCHANGED <<jobVars, nonAllVars>>

\* job_manager.py:85-86  `except Exception as e: handle_exception(e, "job")`
RA_Except ==
    /\ apc = "except"
    /\ apc' = "finally"
    /\ UNCHANGED <<job_ids, invoked>>
    /\ UNCHANGED <<jobVars, nonAllVars>>

\* job_manager.py:87-103  `finally: self.reschedule()`
RA_Reschedule ==
    /\ apc = "finally"
    /\ apc' = "done"
    /\ UNCHANGED <<job_ids, invoked>>
    /\ UNCHANGED <<jobVars, nonAllVars>>

\* The event-loop thread and one worker thread (route.py:134
\* asyncio.to_thread) that calls run_job while run_all_jobs is under way.
AllThreads == {"loop", "worker1"}

AllNext ==
    \/ RA_Start
    \/ RA_Invoke
    \/ RA_Back
    \/ RA_LoopEnd
    \/ RA_Except
    \/ RA_Reschedule
    \/ \E t \in AllThreads \ {"loop"} : \E j \in JobIds : Call(t, j)
    \/ \E t \in AllThreads :
          \/ Guard(t)
          \/ Add(t)
          \/ Traverse(t)
          \/ Save(t)
          \/ Clean(t)
          \/ Except(t)
          \/ Finally(t)

\* C22: run_all_jobs calls run_job once for every configured job id, in the
\* configured order, and when it has finished every configured id has been
\* invoked, whatever happened to the jobs before it.
C22_EveryJobInvokedInOrder ==
    /\ Len(invoked) <= Len(job_ids)
    /\ \A i \in 1..Len(invoked) : invoked[i] = job_ids[i]
    /\ apc = "done" => invoked = job_ids

(***************************************************************************)
(* Manifest cache: async_save_file_ids (utils.py)                          *)
(***************************************************************************)

\* Bound on the number of saves in one behaviour.
MaxSaves == 3

\* job_id arguments: two job ids and the absent one (None or "").
SaveJobArgs == {"X", "Y", ""}

CachePaths == {"lib/a.strm", "lib/b.strm"}

CacheIds == {1, 2}

\* A mapping local path -> file id: a manifest, or a sub-map of the cache.
PathMaps == UNION {[D -> CacheIds] : D \in SUBSET CachePaths}

EmptyMap == [k \in {} |-> 0]

\* Contents of the cache file: no file, text that json.loads rejects, JSON
\* that is not an object, or a JSON object  key -> (path -> id).
NoCacheFile == [kind |-> "nofile", data |-> EmptyMap]

NotJson == [kind |-> "notjson", data |-> EmptyMap]

NotObject == [kind |-> "notobject", data |-> EmptyMap]

JsonObject(d) == [kind |-> "json", data |-> d]

\* utils.py:531-538: the sub-key the manifest goes under.
SubKey(job_id) == IF job_id # "" THEN job_id ELSE "global"

\* A save that replaces the sub-map by the new manifest.
UpdateReplaces(old, new) == new

\* utils.py:534, 538  `data[key].update(cloud_files)`
Update(old, new) ==
    [p \in (DOMAIN old) \cup (DOMAIN new) |->
        IF p \in DOMAIN new THEN new[p] ELSE old[p]]

\* utils.py:531-538: data after the update under sub-key k.
Merged(data, k, cloud) ==
    LET sub == IF k \in DOMAIN data THEN data[k] ELSE EmptyMap
    IN  [x \in (DOMAIN data) \cup {k} |->
            IF x = k THEN Update(sub, cloud) ELSE data[x]]

SaveInit ==
    /\ cache_files \in {NoCacheFile, NotJson, NotObject, JsonObject(EmptyMap)}
    /\ cache_before = cache_files
    /\ save_arg = [job_id |-> "", cloud_files |-> EmptyMap]
    /\ save_result = "none"
    /\ nsaves = 0

SaveIdle ==
    /\ cache_files = NoCacheFile
    /\ cache_before = NoCacheFile
    /\ save_arg = [job_id |-> "", cloud_files |-> EmptyMap]
    /\ save_result = "none"
    /\ nsaves = 0

\* utils.py:507-545  async_save_file_ids(cloud_files, job_id).
\*   519-520  a missing file is created as "{}";
\*   523-527  content that cannot be read or parsed counts as {};
\*   531-538  the update (raises on JSON that is not an object);
\*   541-543  the file is opened with "w" and written: on an error of the
\*            write the truncated file stays and the exception propagates.
async_save_file_ids(cloud, job_id) ==
    /\ nsaves < MaxSaves
    /\ nsaves' = nsaves + 1
    /\ cache_before' = cache_files
    /\ save_arg' = [job_id |-> job_id, cloud_files |-> cloud]
    /\ LET data == IF cache_files.kind = "json" THEN cache_files.data
                   ELSE EmptyMap
       IN  IF cache_files.kind = "notobject"
           THEN /\ save_result' = "raised"
                /\ UNCHANGED cache_files
           ELSE \E ok \in BOOLEAN :
                   IF ok
                   THEN /\ cache_files' =
                              JsonObject(Merged(data, SubKey(job_id), cloud))
                        /\ save_result' = "saved"
                   ELSE /\ cache_files' = NotJson
                        /\ save_result' = "raised"
    /\ UNCHANGED nonSaveVars

SaveNext ==
    \E cloud \in PathMaps : \E job_id \in SaveJobArgs :
        async_save_file_ids(cloud, job_id)

\* The sub-maps readable in a file content.
SubMaps(f) == IF f.kind = "json" THEN f.data ELSE EmptyMap

\* C23: a save of manifest M for job J leaves a JSON object in which, under
\* sub-key J ("global" for an absent job id), every path of M has its new id
\* and every other path recorded there before keeps its id, and in which the
\* sub-maps of all other keys are what they were.
C23_SaveMergesUnderJobKey ==
    save_result = "saved" =>
        LET before == SubMaps(cache_before)
            after  == cache_files.data
            k      == SubKey(save_arg.job_id)
            M      == save_arg.cloud_files
            old    == IF k \in DOMAIN before THEN before[k] ELSE EmptyMap
        IN  /\ cache_files.kind = "json"
            /\ k \in DOMAIN after
            /\ k = "global" <=> save_arg.job_id \notin {"X", "Y"}
            /\ \A p \in DOMAIN M :
                  p \in DOMAIN after[k] /\ after[k][p] = M[p]
            /\ \A p \in (DOMAIN old) \ (DOMAIN M) :
                  p \in DOMAIN after[k] /\ after[k][p] = old[p]
            /\ (DOMAIN after) \ {k} = (DOMAIN before) \ {k}
            /\ \A x \in (DOMAIN before) \ {k} : after[x] = before[x]

\* A save for X that overwrites one id, keeps an older path and finds the
\* sub-map of another job in the file.
C23_Witness ==
    /\ save_result = "saved"
    /\ save_arg.job_id = "X"
    /\ cache_before.kind = "json"
    /\ {"X", "Y"} \subseteq DOMAIN cache_before.data
    /\ cache_before.data["Y"] # EmptyMap
    /\ DOMAIN cache_before.data["X"] = CachePaths
    /\ DOMAIN save_arg.cloud_files = {"lib/a.strm"}
    /\ save_arg.cloud_files["lib/a.strm"] # cache_before.data["X"]["lib/a.strm"]

(***************************************************************************)
(* Strings: file names, paths and URLs as sequences of characters          *)
(***************************************************************************)

\* str.lower() on the characters that occur in the model.
Lower(c) ==
    CASE c = "M" -> "m"
      [] c = "K" -> "k"
      [] c = "V" -> "v"
      [] c = "J" -> "j"
      [] c = "P" -> "p"
      [] c = "G" -> "g"
      [] OTHER -> c

LowerStr(s) == [i \in 1..Len(s) |-> Lower(s[i])]

\* str.startswith / str.endswith
StartsWith(s, p) == Len(p) <= Len(s) /\ SubSeq(s, 1, Len(p)) = p

EndsWith(s, p) == Len(p) <= Len(s) /\ SubSeq(s, Len(s) - Len(p) + 1, Len(s)) = p

\* str.rfind(c) + 1: the last position of c in s, 0 when there is none.
LastIndex(s, c) ==
    LET I == {i \in 1..Len(s) : s[i] = c}
    IN  IF I = {} THEN 0 ELSE CHOOSE i \in I : \A k \in I : k <= i

\* os.path.splitext: the extension starts at the last dot of the last path
\* component, unless only dots precede it there.
Splitext(s) ==
    LET dot == LastIndex(s, ".")
        sep == LastIndex(s, "/")
    IN  IF dot > sep /\ \E i \in (sep + 1)..(dot - 1) : s[i] # "."
        THEN <<SubSeq(s, 1, dot - 1), SubSeq(s, dot, Len(s))>>
        ELSE <<s, << >> >>

\* os.path.join(a, b): an absolute b discards a; otherwise one separator is
\* put between a non-empty a and b unless a already ends with one.
Join(a, b) ==
    IF b # << >> /\ b[1] = "/" THEN b
    ELSE IF a = << >> \/ a[Len(a)] = "/" THEN a \o b
    ELSE a \o <<"/">> \o b

Join3(a, b, c) == Join(Join(a, b), c)

RECURSIVE RStripSlash(_)
RStripSlash(s) ==
    IF s # << >> /\ s[Len(s)] = "/" THEN RStripSlash(SubSeq(s, 1, Len(s) - 1))
    ELSE s

\* os.path.dirname: everything up to the last separator, without trailing
\* separators unless it consists of separators only.
Dirname(s) ==
    LET head == SubSeq(s, 1, LastIndex(s, "/"))
    IN  IF RStripSlash(head) = << >> THEN head ELSE RStripSlash(head)

\* str.replace(sub, ""): every occurrence of sub, left to right, is removed.
RECURSIVE RemoveAll(_, _)
RemoveAll(s, sub) ==
    IF sub = << >> \/ s = << >> THEN s
    ELSE IF StartsWith(s, sub)
         THEN RemoveAll(SubSeq(s, Len(sub) + 1, Len(s)), sub)
         ELSE <<s[1]>> \o RemoveAll(SubSeq(s, 2, Len(s)), sub)

\* urllib.parse.quote: letters, digits and "_.-~/" are kept, a space becomes
\* "%20".
RECURSIVE Quote(_)
Quote(s) ==
    IF s = << >> THEN << >>
    ELSE (IF s[1] = " " THEN <<"%", "2", "0">> ELSE <<s[1]>>)
         \o Quote(SubSeq(s, 2, Len(s)))

\* str(n) of a non-negative integer, as the f-string formats a file id.
DigitChars == <<"0", "1", "2", "3", "4", "5", "6", "7", "8", "9">>

RECURSIVE IntStr(_)
IntStr(n) ==
    IF n < 10 THEN <<DigitChars[n + 1]>>
    ELSE IntStr(n \div 10) \o <<DigitChars[(n % 10) + 1]>>

\* The components of a path: what lies between its separators.
RECURSIVE Components(_)
Components(s) ==
    IF s = << >> THEN << >>
    ELSE IF s[1] = "/" THEN Components(SubSeq(s, 2, Len(s)))
    ELSE LET I == {i \in 1..Len(s) : s[i] = "/"}
             n == IF I = {} THEN Len(s) + 1
                  ELSE CHOOSE i \in I : \A k \in I : i <= k
         IN  <<SubSeq(s, 1, n - 1)>> \o Components(SubSeq(s, n, Len(s)))

(***************************************************************************)
(* FileProcessor (file_processor.py) and StrmGenerator (strm_generator.py):*)
(* what is done with one remote file                                       *)
(***************************************************************************)

\* Remote files: filename and fileId of the listing item.
Item(name, id) == [filename |-> name, fileId |-> id]

ClassifyItems ==
    { Item(<< "e", ".", "m", "k", "v" >>, 42), Item(<< "e", ".", "M", "K", "V" >>, 42), Item(<< "a", "-", "p", ".", "j", "p", "g" >>, 7),
      Item(<< "a", ".", "j", "p", "g" >>, 7), Item(<< "a", ".", "s", "r", "t" >>, 7), Item(<< "a", ".", "n", "f", "o" >>, 7),
      Item(<< "a", ".", "t", "x", "t" >>, 7) }

\* The job configuration the model starts from; the fields are those that
\* config_manager.get serves to the processors.
BaseConfig ==
    [ id                    |-> << "j" >>,
      target_dir            |-> << "/", "m", "e", "d", "i", "a", "/" >>,
      path_prefix           |-> << "/" >>,
      use_302_url           |-> TRUE,
      flatten_mode          |-> FALSE,
      proxy                 |-> << "h", "t", "t", "p", ":", "/", "/", "x" >>,
      video_extensions      |-> {<< ".", "m", "k", "v" >>},
      image_extensions      |-> {<< ".", "j", "p", "g" >>},
      subtitle_extensions   |-> {<< ".", "s", "r", "t" >>},
      download_image_suffix |-> {},
      image                 |-> FALSE,
      subtitle              |-> FALSE,
      nfo                   |-> FALSE ]

\* Configurations that differ in what decides the handling of a file.
ClassifyConfigs ==
    { [BaseConfig EXCEPT !.video_extensions = v, !.image_extensions = i,
                         !.subtitle_extensions = s,
                         !.download_image_suffix = x, !.image = fi,
                         !.subtitle = fs, !.nfo = fn, !.flatten_mode = fl] :
        v \in {{<< ".", "m", "k", "v" >>}, {<< ".", "M", "K", "V" >>}},
        i \in {{<< ".", "j", "p", "g" >>}, {<< ".", "j", "p", "g" >>, << ".", "s", "r", "t" >>}},
        s \in {{<< ".", "s", "r", "t" >>}, {<< ".", "s", "r", "t" >>, << ".", "n", "f", "o" >>}},
        x \in {{}, {<< "-", "p" >>}},
        fi \in BOOLEAN, fs \in BOOLEAN, fn \in BOOLEAN, fl \in BOOLEAN }

NoInst == [made |-> FALSE]

NoDecision == [action |-> "none"]

\* file_processor.py:16-33, strm_generator.py:17-59: the constructor copies
\* these settings into the instance; StrmGenerator also precomputes the
\* three download switches (lines 50-59), FileProcessor has no such fields.
NewInst(p, cfg) ==
    [ made                  |-> TRUE,
      job_id                |-> cfg.id,
      target_dir            |-> cfg.target_dir,
      path_prefix           |-> cfg.path_prefix,
      use_302_url           |-> cfg.use_302_url,
      flatten_mode          |-> cfg.flatten_mode,
      video_extensions      |-> cfg.video_extensions,
      image_extensions      |-> cfg.image_extensions,
      subtitle_extensions   |-> cfg.subtitle_extensions,
      download_image_suffix |-> cfg.download_image_suffix,
      download_images       |-> p = "StrmGenerator" /\ cfg.image /\ ~cfg.flatten_mode,
      download_subtitles    |-> p = "StrmGenerator" /\ cfg.subtitle /\ ~cfg.flatten_mode,
      download_nfo          |-> p = "StrmGenerator" /\ cfg.nfo /\ ~cfg.flatten_mode ]

ProcInit(configs) ==
    /\ processor \in {"FileProcessor", "StrmGenerator"}
    /\ live \in configs
    /\ start = live
    /\ inst = NoInst
    /\ parent_path = << >>
    /\ depth = 0
    /\ decision = NoDecision

ProcIdle ==
    /\ processor = "FileProcessor"
    /\ live = BaseConfig
    /\ start = BaseConfig
    /\ inst = NoInst
    /\ parent_path = << >>
    /\ depth = 0
    /\ decision = NoDecision

\* file_processor.py:16-33, strm_generator.py:17-59: the job starts and the
\* processor is constructed from the configuration in force.
PF_Construct ==
    /\ ~inst.made
    /\ inst' = NewInst(processor, live)
    /\ start' = live
    /\ UNCHANGED <<processor, live, parent_path, depth, decision>>
    /\ UNCHANGED nonProcVars

\* file_processor.py:44-46, strm_generator.py:139-141
BaseName(item) == Splitext(item.filename)[1]

FileExtension(item) == LowerStr(Splitext(item.filename)[2])

\* A target path that ignores that parent_path may carry target_dir already.
TargetPathAlwaysJoined(i, pp) == Join(i.target_dir, pp)

\* file_processor.py:47-50, strm_generator.py:144-148
TargetPath(i, pp) ==
    IF StartsWith(pp, i.target_dir) THEN pp ELSE Join(i.target_dir, pp)

\* file_processor.py:80-84, strm_generator.py:185-189: the proxy is read from
\* the configuration at the time of the call.
VideoUrl(i, proxy, item, pp) ==
    IF i.use_302_url
    THEN proxy \o << "/", "g", "e", "t", "_", "f", "i", "l", "e", "_", "u", "r", "l", "/" >> \o IntStr(item.fileId) \o << "/" >>
               \o Quote(i.job_id)
    ELSE Join3(i.path_prefix, pp, item.filename)

\* file_processor.py:87-91, strm_generator.py:192-195
StrmFilePath(i, item, pp) ==
    IF i.flatten_mode
    THEN Join(i.target_dir, BaseName(item) \o << ".", "s", "t", "r", "m" >>)
    ELSE Join(TargetPath(i, pp), BaseName(item) \o << ".", "s", "t", "r", "m" >>)

EmitStrm(i, proxy, item, pp) ==
    [ action |-> "EmitStrm", item |-> item, parent_path |-> pp,
      path |-> StrmFilePath(i, item, pp),
      url |-> VideoUrl(i, proxy, item, pp) ]

\* file_processor.py:149-171, strm_generator.py:215-235
DownloadFile(i, item, pp) ==
    [ action |-> "Download", item |-> item, parent_path |-> pp,
      path |-> Join(TargetPath(i, pp), item.filename), url |-> << >> ]

\* Nothing is written or downloaded; `path` is what the call returns.
SkipFile(item, pp, ret) ==
    [ action |-> "Skip", item |-> item, parent_path |-> pp,
      path |-> ret, url |-> << >> ]

\* file_processor.py:116-119, strm_generator.py:158-161
SuffixAllowed(i, item) ==
    \/ i.download_image_suffix = {}
    \/ \E x \in i.download_image_suffix : EndsWith(BaseName(item), x)

\* file_processor.py:137-147  _is_filetype_downloadable; the flag is what
\* config_manager.get returns at the time of the call.
Downloadable(i, flag) == flag /\ ~i.flatten_mode

\* file_processor.py:35-62, 107-135  FileProcessor.process_file
FP_process_file(i, cfg, item, pp) ==
    LET ext == FileExtension(item)
    IN  IF ext \in i.video_extensions
        THEN EmitStrm(i, cfg.proxy, item, pp)
        ELSE IF ext \in i.image_extensions
        THEN IF Downloadable(i, cfg.image) /\ SuffixAllowed(i, item)
             THEN DownloadFile(i, item, pp)
             ELSE SkipFile(item, pp, << >>)
        ELSE IF ext \in i.subtitle_extensions
        THEN IF Downloadable(i, cfg.subtitle)
             THEN DownloadFile(i, item, pp)
             ELSE SkipFile(item, pp, << >>)
        ELSE IF ext = << ".", "n", "f", "o" >>
        THEN IF Downloadable(i, cfg.nfo)
             THEN DownloadFile(i, item, pp)
             ELSE SkipFile(item, pp, << >>)
        ELSE SkipFile(item, pp, << >>)

\* strm_generator.py:135-171  StrmGenerator._process_file: an elif whose
\* switch is off is not taken and the chain goes on to the next test.
SG_process_file(i, cfg, item, pp) ==
    LET ext == FileExtension(item)
        dflt == SkipFile(item, pp, Join(TargetPath(i, pp), item.filename))
    IN  IF ext \in i.video_extensions
        THEN EmitStrm(i, cfg.proxy, item, pp)
        ELSE IF ext \in i.image_extensions /\ i.download_images
        THEN IF SuffixAllowed(i, item)
             THEN DownloadFile(i, item, pp)
             ELSE dflt
        ELSE IF ext \in i.subtitle_extensions /\ i.download_subtitles
        THEN DownloadFile(i, item, pp)
        ELSE IF ext = << ".", "n", "f", "o" >> /\ i.download_nfo
        THEN DownloadFile(i, item, pp)
        ELSE dflt

ProcessFile(p, i, cfg, item, pp) ==
    IF p = "FileProcessor" THEN FP_process_file(i, cfg, item, pp)
    ELSE SG_process_file(i, cfg, item, pp)

\* strm_generator.py:117-123, file_traverser.py:116-123: the path of a
\* listing item in the folder whose path is P.
ProcessPath(i, P, filename) ==
    IF P = << >> THEN filename
    ELSE IF StartsWith(P, << "/", "m", "e", "d", "i", "a", "/" >>) \/ StartsWith(P, << "m", "e", "d", "i", "a", "/" >>)
    THEN Join(P, filename)
    ELSE Join3(i.target_dir, P, filename)

\* strm_generator.py:130-132 (os.path.dirname of the item's path),
\* file_traverser.py:130-131 (the item's path with the file name replaced by
\* ""): the parent_path handed to the processor.
PassedPath(p, i, P, filename) ==
    IF p = "StrmGenerator" THEN Dirname(ProcessPath(i, P, filename))
    ELSE RemoveAll(ProcessPath(i, P, filename), filename)

\* One call of process_file / _process_file for a listing item of the
\* current folder.
PF_Process(item) ==
    /\ inst.made
    /\ decision' = ProcessFile(processor, inst, live, item,
                               PassedPath(processor, inst, parent_path,
                                          item.filename))
    /\ UNCHANGED <<processor, live, start, inst, parent_path, depth>>
    /\ UNCHANGED nonProcVars

ClassifyNext ==
    \/ PF_Construct
    \/ \E item \in ClassifyItems : PF_Process(item)

\* Bound on the depth of the folders entered.
MaxDepth == 2

FolderNames == {<< "s", "1" >>}

\* strm_generator.py:125-127, file_traverser.py:124-127: a folder item is
\* entered; its path is the parent_path of what it holds.
TR_Descend(folder) ==
    /\ inst.made
    /\ depth < MaxDepth
    /\ depth' = depth + 1
    /\ parent_path' = ProcessPath(inst, parent_path, folder)
    /\ UNCHANGED <<processor, live, start, inst, decision>>
    /\ UNCHANGED nonProcVars

PathItems == {Item(<< "e", ".", "m", "k", "v" >>, 42), Item(<< "a", ".", "b", ".", "M", "K", "V" >>, 7)}

\* Configurations that differ in what decides paths and URLs.
PathConfigs ==
    { [BaseConfig EXCEPT !.target_dir = td, !.path_prefix = pre,
                         !.use_302_url = u, !.flatten_mode = fl,
                         !.proxy = px, !.id = id] :
        td \in {<< "/", "m", "e", "d", "i", "a", "/" >>, << "/", "m", "e", "d", "i", "a" >>, << "m", "e", "d", "i", "a" >>, << "l", "i", "b" >>},
        pre \in {<< "/" >>, << "/", "m", "n", "t" >>},
        u \in BOOLEAN, fl \in BOOLEAN,
        px \in {<< "h", "t", "t", "p", ":", "/", "/", "x" >>, << "h", "t", "t", "p", ":", "/", "/", "x", "/" >>},
        id \in {<< "j" >>, << "m", "y", " ", "j", "o", "b" >>} }

\* strm_generator.py:78-82, file_traverser.py:66-69; job_manager.py:42-44:
\* the parent_path the traversal starts with: empty (no folder name), the
\* name of the root folder, or the path given to run_job.
StartPaths == {<< >>, << "t", "v" >>, << "m", "e", "d", "i", "a", "/", "t", "v" >>, << "/", "m", "e", "d", "i", "a", "/", "t", "v" >>, << "l", "i", "b", "/", "t", "v" >>}

PathInit ==
    /\ processor \in {"FileProcessor", "StrmGenerator"}
    /\ live \in PathConfigs
    /\ start = live
    /\ inst = NoInst
    /\ parent_path \in StartPaths
    /\ depth = 0
    /\ decision = NoDecision

PathNext ==
    \/ PF_Construct
    \/ \E folder \in FolderNames : TR_Descend(folder)
    \/ \E item \in PathItems : PF_Process(item)

(***************************************************************************)
(* Claims about the handling of one file                                   *)
(***************************************************************************)

LowerAll(exts) == {LowerStr(e) : e \in exts}

\* The category of a file: its extension compared without regard to case
\* with the three lists, in the order video, image, subtitle, then ".nfo".
Category(item, cfg) ==
    LET ext == LowerStr(Splitext(item.filename)[2])
    IN  IF ext \in LowerAll(cfg.video_extensions) THEN "video"
        ELSE IF ext \in LowerAll(cfg.image_extensions) THEN "image"
        ELSE IF ext \in LowerAll(cfg.subtitle_extensions) THEN "subtitle"
        ELSE IF ext = << ".", "n", "f", "o" >> THEN "nfo"
        ELSE "skip"

ImageRule(item, cfg) ==
    /\ cfg.image
    /\ ~cfg.flatten_mode
    /\ \/ cfg.download_image_suffix = {}
       \/ \E x \in cfg.download_image_suffix :
             EndsWith(Splitext(item.filename)[1], x)

\* What is to be done with a file of each category.
Classify(item, cfg) ==
    LET cat == Category(item, cfg)
    IN  IF cat = "video" THEN "EmitStrm"
        ELSE IF cat = "image"
        THEN (IF ImageRule(item, cfg) THEN "Download" ELSE "Skip")
        ELSE IF cat = "subtitle"
        THEN (IF cfg.subtitle /\ ~cfg.flatten_mode THEN "Download" ELSE "Skip")
        ELSE IF cat = "nfo"
        THEN (IF cfg.nfo /\ ~cfg.flatten_mode THEN "Download" ELSE "Skip")
        ELSE "Skip"

Decided == decision.action # "none"

\* C25: what is done with a file is decided by its extension, compared
\* without regard to case on both sides, with the precedence video, image,
\* subtitle, ".nfo", skip.
C25_CategoryByExtension ==
    Decided => decision.action = Classify(decision.item, start)

\* C26: an image file is downloaded exactly when the image flag is set,
\* flatten_mode is off and the suffix allow-list is empty or matches the base
\* name; otherwise it is skipped.
C26_ImageDownloadRule ==
    (Decided /\ Category(decision.item, start) = "image") =>
        /\ decision.action \in {"Download", "Skip"}
        /\ decision.action = "Download" <=> ImageRule(decision.item, start)

\* C27: a subtitle file (an NFO file) is downloaded exactly when the subtitle
\* flag (the nfo flag) is set and flatten_mode is off; otherwise it is
\* skipped.
C27_SubtitleNfoDownloadRule ==
    /\ (Decided /\ Category(decision.item, start) = "subtitle") =>
          /\ decision.action \in {"Download", "Skip"}
          /\ decision.action = "Download" <=>
                (start.subtitle /\ ~start.flatten_mode)
    /\ (Decided /\ Category(decision.item, start) = "nfo") =>
          /\ decision.action \in {"Download", "Skip"}
          /\ decision.action = "Download" <=> (start.nfo /\ ~start.flatten_mode)

\* Configurations a reload can bring into force.
ReloadConfigs ==
    { [BaseConfig EXCEPT !.image = fi, !.proxy = px, !.target_dir = td,
                         !.flatten_mode = fl] :
        fi \in BOOLEAN,
        px \in {<< "h", "t", "t", "p", ":", "/", "/", "x" >>, << "h", "t", "t", "p", ":", "/", "/", "y" >>},
        td \in {<< "/", "m", "e", "d", "i", "a", "/" >>, << "/", "l", "i", "b", "/" >>},
        fl \in BOOLEAN }

ReloadItems == {Item(<< "e", ".", "m", "k", "v" >>, 42), Item(<< "a", ".", "j", "p", "g" >>, 7)}

\* config_manager.py:507-527 check_config_update (scheduler.py:62, every 30
\* seconds) and route.py:60-75 save_config: the configuration file has been
\* edited and load() replaces the configuration in force.
Reload ==
    /\ \E cfg \in ReloadConfigs \ {live} : live' = cfg
    /\ UNCHANGED <<processor, start, inst, parent_path, depth, decision>>
    /\ UNCHANGED nonProcVars

ReloadNext ==
    \/ PF_Construct
    \/ Reload
    \/ \E item \in ReloadItems : PF_Process(item)

\* C24: whatever is reloaded during the run, each file is handled as the
\* configuration in force when the run started says.
C24_ConfigFixedDuringRun ==
    Decided =>
        decision = ProcessFile(processor, NewInst(processor, start), start,
                               decision.item, decision.parent_path)

\* The name of the strm file of a video: the file name with its last
\* extension replaced by ".strm".
StrmName(item) ==
    SubSeq(item.filename, 1, LastIndex(item.filename, ".") - 1) \o << ".", "s", "t", "r", "m" >>

IsAbsolute(s) == s # << >> /\ s[1] = "/"

C29_StrmContent ==
    decision.action = "EmitStrm" =>
        IF start.use_302_url
        THEN decision.url =
                RStripSlash(start.proxy) \o << "/", "g", "e", "t", "_", "f", "i", "l", "e", "_", "u", "r", "l", "/" >>
                    \o IntStr(decision.item.fileId) \o << "/" >> \o Quote(start.id)
        ELSE Components(decision.url) =
                Components(start.path_prefix)
                    \o Components(decision.parent_path)
                    \o <<decision.item.filename>>

(***************************************************************************)
(* TaskScheduler (scheduler.py)                                            *)
(***************************************************************************)

\* Bound on the number of times the sleep of a job timer ends.
MaxFirings == 1

\* Bound on the number of times the sleep of a scheduler loop ends.
MaxTicks == 1

\* Bounds on the number of calls of start() and of stop().
MaxStarts == 3

MaxStops == 1

\* Every timer task is created by a call of start() or by a timer task
\* that has fired.
TaskIds == 1 .. (MaxStarts + MaxFirings)

\* A timer task created by asyncio.create_task(self._run_delayed_job(..)):
\* where it is, and whether a cancellation is pending for it
\* (Task.cancel()).  Its first step is in the ready queue.
NewTimer == [pc |-> "new", must_cancel |-> FALSE]

NoTimer == [pc |-> "free", must_cancel |-> FALSE]

EndedTimer == [pc |-> "done", must_cancel |-> FALSE]

\* An entry of the ready queue of the event loop, or a coroutine suspended
\* in `await self._cron_task`:
\*   kind  "timer": a step of timer task id;
\*         "start", "stop": the first step of a call;
\*         "start_resume", "stop_resume": the rest of a call after its await;
\*         "loop": a scheduler loop after its sleep;
\*   on    the task awaited;
\*   ok    for a stop(): start() was not called since this call began.
Handle(kind, id) == [kind |-> kind, id |-> id, on |-> 0, ok |-> TRUE]

Waiter(kind, id, on) == [kind |-> kind, id |-> id, on |-> on, ok |-> TRUE]

\* scheduler.py:16-18: the scheduler as constructed.
SchedInit ==
    /\ sched_running = FALSE
    /\ cron_task = 0
    /\ tasks = [t \in TaskIds |-> NoTimer]
    /\ ready = << >>
    /\ waiters = << >>
    /\ sched_loops = 0
    /\ stopped = FALSE
    /\ jobs_result = "none"
    /\ nfired = 0
    /\ narmed = 0
    /\ nticks = 0
    /\ nstarts = 0
    /\ nstops = 0

SchedIdle == SchedInit

\* `self._cron_task and not self._cron_task.done()` (scheduler.py:44, 72)
CronPending == cron_task # 0 /\ tasks[cron_task].pc # "done"

\* No timer task is in the middle of a step: each is not yet created,
\* suspended, or ended.  The event loop runs one step at a time.
TimerSuspended ==
    \A t \in TaskIds :
        tasks[t].pc \in {"free", "new", "sleep", "woken", "await_self",
                         "await_other", "done"}

\* The event loop is about to run the ready entry of this kind and id.
Runs(kind, id) ==
    /\ TimerSuspended
    /\ ready # << >>
    /\ Head(ready).kind = kind
    /\ Head(ready).id = id

\* An armed timer: a timer task in its sleep (scheduler.py:96), or whose
\* sleep is over and which is about to fire, and which was not cancelled.
Pending(t) == tasks[t].pc \in {"sleep", "woken"} /\ ~tasks[t].must_cancel

\* The coroutines that await task c, in the order in which they began to
\* wait: when c ends they are put on the ready queue in that order.
RECURSIVE WokenBy(_, _)
WokenBy(ws, c) ==
    IF ws = << >> THEN << >>
    ELSE IF Head(ws).on = c THEN << Head(ws) >> \o WokenBy(Tail(ws), c)
    ELSE WokenBy(Tail(ws), c)

RECURSIVE StillWaiting(_, _)
StillWaiting(ws, c) ==
    IF ws = << >> THEN << >>
    ELSE IF Head(ws).on # c THEN << Head(ws) >> \o StillWaiting(Tail(ws), c)
    ELSE StillWaiting(Tail(ws), c)

\* Task.cancel() of timer task c: the cancellation is pending; a task that
\* sleeps is woken (its sleep is cancelled), one whose step is in the ready
\* queue gets the CancelledError at that step.
CancelledTasks(c) ==
    [tasks EXCEPT ![c] = [pc |-> IF @.pc = "sleep" THEN "woken" ELSE @.pc,
                          must_cancel |-> TRUE]]

CancelledReady(rd, c) ==
    IF tasks[c].pc = "sleep" THEN Append(rd, Handle("timer", c)) ELSE rd

\* A call of start() has passed its test of _running: every stop() that has
\* not yet returned is followed by a start().
RECURSIVE Restarted(_)
Restarted(s) ==
    IF s = << >> THEN << >>
    ELSE << [Head(s) EXCEPT !.ok = @ /\ Head(s).kind # "stop_resume"] >>
            \o Restarted(Tail(s))

\* The sleep of timer t is over (scheduler.py:96).
E_Expire(t) ==
    /\ tasks[t].pc = "sleep"
    /\ TimerSuspended
    /\ nfired + Cardinality({u \in TaskIds : tasks[u].pc = "woken"
                                             /\ ~tasks[u].must_cancel})
          < MaxFirings
    /\ tasks' = [tasks EXCEPT ![t].pc = "woken"]
    /\ ready' = Append(ready, Handle("timer", t))
    /\ UNCHANGED <<sched_running, cron_task, waiters, sched_loops, stopped,
                   jobs_result, nfired, narmed, nticks, nstarts, nstops>>
    /\ UNCHANGED nonSchedVars

\* scheduler.py:95-98, 103-104: the first step of a timer task.  A task
\* cancelled before it began ends; with a scheduler that runs it sleeps;
\* else it ends.
T_First(t) ==
    /\ Runs("timer", t)
    /\ tasks[t].pc = "new"
    /\ IF ~tasks[t].must_cancel /\ sched_running
       THEN /\ tasks' = [tasks EXCEPT ![t].pc = "sleep"]
            /\ ready' = Tail(ready)
            /\ UNCHANGED waiters
       ELSE /\ tasks' = [tasks EXCEPT ![t] = EndedTimer]
            /\ ready' = Tail(ready) \o WokenBy(waiters, t)
            /\ waiters' = StillWaiting(waiters, t)
    /\ UNCHANGED <<sched_running, cron_task, sched_loops, stopped,
                   jobs_result, nfired, narmed, nticks, nstarts, nstops>>
    /\ UNCHANGED nonSchedVars

\* scheduler.py:96-100: the timer task is resumed after its sleep: the
\* timer fires; with a scheduler that is not running the task ends.
T_Wake(t) ==
    /\ Runs("timer", t)
    /\ tasks[t].pc = "woken"
    /\ ~tasks[t].must_cancel
    /\ IF sched_running
       THEN /\ tasks' = [tasks EXCEPT ![t].pc = "jobs"]
            /\ nfired' = nfired + 1
            /\ ready' = Tail(ready)
            /\ UNCHANGED waiters
       ELSE /\ tasks' = [tasks EXCEPT ![t] = EndedTimer]
            /\ ready' = Tail(ready) \o WokenBy(waiters, t)
            /\ waiters' = StillWaiting(waiters, t)
            /\ UNCHANGED nfired
    /\ UNCHANGED <<sched_running, cron_task, sched_loops, stopped,
                   jobs_result, narmed, nticks, nstarts, nstops>>
    /\ UNCHANGED nonSchedVars

\* scheduler.py:96, 103-104: a timer task that was cancelled in its sleep
\* is resumed with CancelledError, logs and ends.
T_Cancelled(t) ==
    /\ Runs("timer", t)
    /\ tasks[t].pc = "woken"
    /\ tasks[t].must_cancel
    /\ tasks' = [tasks EXCEPT ![t] = EndedTimer]
    /\ ready' = Tail(ready) \o WokenBy(waiters, t)
    /\ waiters' = StillWaiting(waiters, t)
    /\ UNCHANGED <<sched_running, cron_task, sched_loops, stopped,
                   jobs_result, nfired, narmed, nticks, nstarts, nstops>>
    /\ UNCHANGED nonSchedVars

\* scheduler.py:100, job_manager.py:61-89: run_all_jobs is a plain function
\* and runs to its end inside the call; failures of jobs are caught in it
\* (job_manager.py:56-57, 85-86) and it returns None either way.
T_RunAllJobs(t) ==
    /\ tasks[t].pc = "jobs"
    /\ \E r \in {"completed", "failed"} : jobs_result' = r
    /\ tasks' = [tasks EXCEPT ![t].pc = "await"]
    /\ UNCHANGED <<sched_running, cron_task, ready, waiters, sched_loops,
                   stopped, nfired, narmed, nticks, nstarts, nstops>>
    /\ UNCHANGED nonSchedVars

\* scheduler.py:100-102: `await` of the None that run_all_jobs returned
\* raises TypeError, so line 102 is not reached and control goes to the
\* handler of line 105.
T_AwaitNone(t) ==
    /\ tasks[t].pc = "await"
    /\ tasks' = [tasks EXCEPT ![t].pc = "except"]
    /\ UNCHANGED <<sched_running, cron_task, ready, waiters, sched_loops,
                   stopped, jobs_result, nfired, narmed, nticks, nstarts,
                   nstops>>
    /\ UNCHANGED nonSchedVars

\* A handler that logs the error and does not schedule again.
ExceptGivesUp(running) == FALSE

\* scheduler.py:105-109  `if self._running: await self._schedule_job()`
ExceptReschedules(running) == running

T_Except(t) ==
    /\ tasks[t].pc = "except"
    /\ IF ExceptReschedules(sched_running)
       THEN /\ tasks' = [tasks EXCEPT ![t].pc = "cancel"]
            /\ UNCHANGED <<ready, waiters>>
       ELSE /\ tasks' = [tasks EXCEPT ![t] = EndedTimer]
            /\ ready' = ready \o WokenBy(waiters, t)
            /\ waiters' = StillWaiting(waiters, t)
    /\ UNCHANGED <<sched_running, cron_task, sched_loops, stopped,
                   jobs_result, nfired, narmed, nticks, nstarts, nstops>>
    /\ UNCHANGED nonSchedVars

\* scheduler.py:72-75: _schedule_job, called by a timer task that has
\* fired.
\*   _cron_task has ended: nothing to cancel, the new timer is armed next.
\*   _cron_task is the task itself: the cancellation is pending for the
\*     task that is executing; then it awaits itself, and the event loop
\*     puts its next step on the ready queue.
\*   _cron_task is another timer that is suspended in the await of itself:
\*     the await raises RuntimeError (the future is already marked as
\*     awaited), which leaves the handler of line 105 and ends the task.
\*   _cron_task is another timer: that timer is cancelled and awaited.
T_CancelSelf(t) ==
    /\ tasks[t].pc = "cancel"
    /\ IF ~CronPending
       THEN /\ tasks' = [tasks EXCEPT ![t].pc = "arm"]
            /\ UNCHANGED <<ready, waiters>>
       ELSE IF cron_task = t
       THEN /\ tasks' = [tasks EXCEPT ![t] =
                            [pc |-> "await_self", must_cancel |-> TRUE]]
            /\ ready' = Append(ready, Handle("timer", t))
            /\ UNCHANGED waiters
       ELSE IF tasks[cron_task].pc = "await_self"
       THEN /\ tasks' = [tasks EXCEPT ![t] = EndedTimer]
            /\ ready' = ready \o WokenBy(waiters, t)
            /\ waiters' = StillWaiting(waiters, t)
       ELSE /\ tasks' = [CancelledTasks(cron_task) EXCEPT
                            ![t].pc = "await_other"]
            /\ ready' = CancelledReady(ready, cron_task)
            /\ waiters' = Append(waiters, Waiter("timer", t, cron_task))
    /\ UNCHANGED <<sched_running, cron_task, sched_loops, stopped,
                   jobs_result, nfired, narmed, nticks, nstarts, nstops>>
    /\ UNCHANGED nonSchedVars

\* scheduler.py:75-77: the task is resumed with the pending CancelledError
\* at `await self._cron_task`, where `except asyncio.CancelledError: pass`
\* catches it; a task that awaited another timer is resumed when that one
\* has ended.
T_CaughtCancel(t) ==
    /\ Runs("timer", t)
    /\ tasks[t].pc \in {"await_self", "await_other"}
    /\ tasks' = [tasks EXCEPT ![t] = [pc |-> "arm", must_cancel |-> FALSE]]
    /\ ready' = Tail(ready)
    /\ UNCHANGED <<sched_running, cron_task, waiters, sched_loops, stopped,
                   jobs_result, nfired, narmed, nticks, nstarts, nstops>>
    /\ UNCHANGED nonSchedVars

\* scheduler.py:79-91: the next cron deadline is computed and a new timer
\* task replaces the old one, which ends.
T_Arm(t) ==
    /\ tasks[t].pc = "arm"
    /\ tasks' = [tasks EXCEPT ![t] = EndedTimer, ![narmed + 1] = NewTimer]
    /\ cron_task' = narmed + 1
    /\ narmed' = narmed + 1
    /\ ready' = Append(ready, Handle("timer", narmed + 1)) \o WokenBy(waiters, t)
    /\ waiters' = StillWaiting(waiters, t)
    /\ UNCHANGED <<sched_running, sched_loops, stopped, jobs_result, nfired,
                   nticks, nstarts, nstops>>
    /\ UNCHANGED nonSchedVars

\* A coroutine calls start() or stop(): the first step of the call is put
\* on the ready queue.
E_Call ==
    /\ TimerSuspended
    /\ \/ /\ nstarts < MaxStarts
          /\ nstarts' = nstarts + 1
          /\ ready' = Append(ready, Handle("start", 0))
          /\ UNCHANGED nstops
       \/ /\ nstops < MaxStops
          /\ nstops' = nstops + 1
          /\ ready' = Append(ready, Handle("stop", 0))
          /\ UNCHANGED nstarts
    /\ UNCHANGED <<sched_running, cron_task, tasks, waiters, sched_loops,
                   stopped, jobs_result, nfired, narmed, nticks>>
    /\ UNCHANGED nonSchedVars

\* A start() that starts the scheduler whether or not it is running.
StartAlwaysProceeds(running) == FALSE

\* scheduler.py:22-24  `if self._running: ... return`
StartReturns(running) == running

\* scheduler.py:20-37, 54-67, 69-77: a call of start().  While the scheduler
\* runs it returns at once.  Else _running is set and
\*   with running_on_start the jobs are run, and the await of the None they
\*     return raises TypeError out of start(): no loop, no timer;
\*   else the scheduler loop schedules the job: with no timer pending the
\*     new one is armed and the loop goes round; for a pending timer
\*     suspended in the await of itself the await raises RuntimeError, and
\*     the handler of line 65 clears _running; any other pending timer is
\*     cancelled and awaited.
S_Start ==
    /\ Runs("start", 0)
    /\ IF StartReturns(sched_running)
       THEN /\ ready' = Tail(ready)
            /\ UNCHANGED <<sched_running, cron_task, tasks, waiters,
                           sched_loops, stopped, narmed>>
       ELSE /\ stopped' = FALSE
            /\ \E running_on_start \in BOOLEAN :
                 IF running_on_start
                 THEN /\ sched_running' = TRUE
                      /\ ready' = Restarted(Tail(ready))
                      /\ waiters' = Restarted(waiters)
                      /\ UNCHANGED <<cron_task, tasks, sched_loops, narmed>>
                 ELSE IF ~CronPending
                 THEN /\ sched_running' = TRUE
                      /\ tasks' = [tasks EXCEPT ![narmed + 1] = NewTimer]
                      /\ cron_task' = narmed + 1
                      /\ narmed' = narmed + 1
                      /\ sched_loops' = sched_loops + 1
                      /\ ready' = Append(Restarted(Tail(ready)),
                                         Handle("timer", narmed + 1))
                      /\ waiters' = Restarted(waiters)
                 ELSE IF tasks[cron_task].pc = "await_self"
                 THEN /\ sched_running' = FALSE
                      /\ ready' = Restarted(Tail(ready))
                      /\ waiters' = Restarted(waiters)
                      /\ UNCHANGED <<cron_task, tasks, sched_loops, narmed>>
                 ELSE /\ sched_running' = TRUE
                      /\ tasks' = CancelledTasks(cron_task)
                      /\ ready' = CancelledReady(Restarted(Tail(ready)),
                                                 cron_task)
                      /\ waiters' = Append(Restarted(waiters),
                                       Waiter("start_resume", 0, cron_task))
                      /\ UNCHANGED <<cron_task, sched_loops, narmed>>
    /\ UNCHANGED <<jobs_result, nfired, nticks, nstarts, nstops>>
    /\ UNCHANGED nonSchedVars

\* scheduler.py:75-91, 61: the timer that start() awaited has ended:
\* CancelledError is caught, the new timer is armed, and the loop goes round
\* if _running is set.
S_StartResumed ==
    /\ Runs("start_resume", 0)
    /\ tasks' = [tasks EXCEPT ![narmed + 1] = NewTimer]
    /\ cron_task' = narmed + 1
    /\ narmed' = narmed + 1
    /\ sched_loops' = IF sched_running THEN sched_loops + 1 ELSE sched_loops
    /\ ready' = Append(Tail(ready), Handle("timer", narmed + 1))
    /\ UNCHANGED <<sched_running, waiters, stopped, jobs_result, nfired,
                   nticks, nstarts, nstops>>
    /\ UNCHANGED nonSchedVars

\* scheduler.py:39-48: a call of stop().  _running is cleared; with no
\* timer pending stop() returns; for a pending timer suspended in the await
\* of itself the await raises RuntimeError out of stop(); any other pending
\* timer is cancelled and awaited.
S_Stop ==
    /\ Runs("stop", 0)
    /\ sched_running' = FALSE
    /\ IF ~CronPending
       THEN /\ stopped' = TRUE
            /\ ready' = Tail(ready)
            /\ UNCHANGED <<tasks, waiters>>
       ELSE IF tasks[cron_task].pc = "await_self"
       THEN /\ ready' = Tail(ready)
            /\ UNCHANGED <<stopped, tasks, waiters>>
       ELSE /\ tasks' = CancelledTasks(cron_task)
            /\ ready' = CancelledReady(Tail(ready), cron_task)
            /\ waiters' = Append(waiters, Waiter("stop_resume", 0, cron_task))
            /\ UNCHANGED stopped
    /\ UNCHANGED <<cron_task, sched_loops, jobs_result, nfired, narmed,
                   nticks, nstarts, nstops>>
    /\ UNCHANGED nonSchedVars

\* scheduler.py:48-52: the timer that stop() awaited has ended:
\* CancelledError is caught and stop() returns.
S_StopResumed ==
    /\ Runs("stop_resume", 0)
    /\ stopped' = Head(ready).ok
    /\ ready' = Tail(ready)
    /\ UNCHANGED <<sched_running, cron_task, tasks, waiters, sched_loops,
                   jobs_result, nfired, narmed, nticks, nstarts, nstops>>
    /\ UNCHANGED nonSchedVars

\* The number of scheduler loops whose sleep is over.
RECURSIVE LoopsReady(_)
LoopsReady(rd) ==
    IF rd = << >> THEN 0
    ELSE (IF Head(rd).kind = "loop" THEN 1 ELSE 0) + LoopsReady(Tail(rd))

\* scheduler.py:64: the 30 seconds of sleep of a scheduler loop are over.
E_LoopWake ==
    /\ TimerSuspended
    /\ LoopsReady(ready) < sched_loops
    /\ nticks < MaxTicks
    /\ nticks' = nticks + 1
    /\ ready' = Append(ready, Handle("loop", 0))
    /\ UNCHANGED <<sched_running, cron_task, tasks, waiters, sched_loops,
                   stopped, jobs_result, nfired, narmed, nstarts, nstops>>
    /\ UNCHANGED nonSchedVars

\* scheduler.py:60-64: one round of a scheduler loop: configuration
\* check, cache cleaning and heartbeats, 30 seconds of sleep.
L_Tick ==
    /\ Runs("loop", 0)
    /\ sched_running
    /\ ready' = Tail(ready)
    /\ UNCHANGED <<sched_running, cron_task, tasks, waiters, sched_loops,
                   stopped, jobs_result, nfired, narmed, nticks, nstarts,
                   nstops>>
    /\ UNCHANGED nonSchedVars

\* scheduler.py:61: a scheduler loop that finds _running cleared ends.
L_Exit ==
    /\ Runs("loop", 0)
    /\ ~sched_running
    /\ sched_loops' = sched_loops - 1
    /\ ready' = Tail(ready)
    /\ UNCHANGED <<sched_running, cron_task, tasks, waiters, stopped,
                   jobs_result, nfired, narmed, nticks, nstarts, nstops>>
    /\ UNCHANGED nonSchedVars

\* scheduler.py:65-67: an exception in a loop (cache cleaning) ends it
\* and clears _running.
L_Fail ==
    /\ Runs("loop", 0)
    /\ sched_running
    /\ sched_running' = FALSE
    /\ sched_loops' = sched_loops - 1
    /\ ready' = Tail(ready)
    /\ UNCHANGED <<cron_task, tasks, waiters, stopped, jobs_result, nfired,
                   narmed, nticks, nstarts, nstops>>
    /\ UNCHANGED nonSchedVars

\* The event loop runs the entry at the head of its ready queue, and a step
\* that has begun runs to its next await.
TimerStep ==
    \/ \E t \in TaskIds : T_First(t)
    \/ \E t \in TaskIds : T_Wake(t)
    \/ \E t \in TaskIds : T_Cancelled(t)
    \/ \E t \in TaskIds : T_RunAllJobs(t)
    \/ \E t \in TaskIds : T_AwaitNone(t)
    \/ \E t \in TaskIds : T_Except(t)
    \/ \E t \in TaskIds : T_CancelSelf(t)
    \/ \E t \in TaskIds : T_CaughtCancel(t)
    \/ \E t \in TaskIds : T_Arm(t)
    \/ S_Start
    \/ S_StartResumed
    \/ S_Stop
    \/ S_StopResumed
    \/ L_Tick
    \/ L_Exit

SchedNext ==
    \/ \E t \in TaskIds : E_Expire(t)
    \/ \E t \in TaskIds : T_First(t)
    \/ \E t \in TaskIds : T_Wake(t)
    \/ \E t \in TaskIds : T_Cancelled(t)
    \/ \E t \in TaskIds : T_RunAllJobs(t)
    \/ \E t \in TaskIds : T_AwaitNone(t)
    \/ \E t \in TaskIds : T_Except(t)
    \/ \E t \in TaskIds : T_CancelSelf(t)
    \/ \E t \in TaskIds : T_CaughtCancel(t)
    \/ \E t \in TaskIds : T_Arm(t)
    \/ E_Call
    \/ S_Start
    \/ S_StartResumed
    \/ S_Stop
    \/ S_StopResumed
    \/ E_LoopWake
    \/ L_Tick
    \/ L_Exit
    \/ L_Fail

\* C30: while the scheduler is running, the k-th firing of the job timer is
\* eventually followed by the arming of a new timer (the k+1-st), whether
\* the jobs completed or failed; and nothing the timer task does between its
\* firing and the new timer stops the scheduler.
C30_TimerRearmedAfterFiring ==
    /\ \A k \in 1..MaxFirings :
          (nfired = k) ~> (narmed > k \/ ~sched_running)
    /\ [][~TimerSuspended => sched_running' = sched_running]_vars

\* A timer armed after a firing whose jobs failed, the scheduler running
\* and started once.
C30_Witness ==
    /\ sched_running
    /\ jobs_result = "failed"
    /\ CronPending
    /\ Pending(cron_task)
    /\ nfired >= 1
    /\ narmed = nfired + 1
    /\ nstarts = 1
    /\ nstops = 0

\* C37: at every moment at most one armed job timer that has not fired
\* and has not been cancelled exists.
C37_AtMostOnePendingTimer ==
    Cardinality({t \in TaskIds : Pending(t)}) <= 1

MaxStrmRuns == 2
MaxFileId == 3

\* A video of the listing: `folder` is << >> for the folder the run starts
\* in, else the name of its subfolder that holds the video.
VideoItem(name, id, folder) ==
    [filename |-> name, fileId |-> id, folder |-> folder]

\* What the cloud may list for a run: e.mkv in the starting folder, and a
\* second video with the same base name, in the same folder or in the
\* subfolder s1.  A file replaced in the cloud comes back with another id.
Listings ==
    { << VideoItem(<< "e", ".", "m", "k", "v" >>, a, << >>), VideoItem(n, b, f) >> :
        a \in 1..MaxFileId, b \in 1..MaxFileId,
        n \in {<< "e", ".", "m", "k", "v" >>, << "e", ".", "m", "p", "4" >>}, f \in {<< >>, << "s", "1" >>} }
    \ { l \in { << VideoItem(<< "e", ".", "m", "k", "v" >>, a, << >>), VideoItem(n, b, f) >> :
                  a \in 1..MaxFileId, b \in 1..MaxFileId,
                  n \in {<< "e", ".", "m", "k", "v" >>, << "e", ".", "m", "p", "4" >>}, f \in {<< >>, << "s", "1" >>} } :
          \/ l[1].fileId = l[2].fileId
          \/ (l[2].filename = << "e", ".", "m", "k", "v" >> /\ l[2].folder = << >>) }

StrmConfigs ==
    { [BaseConfig EXCEPT !.video_extensions = {<< ".", "m", "k", "v" >>, << ".", "m", "p", "4" >>},
                         !.flatten_mode = fl, !.use_302_url = u] :
        fl \in BOOLEAN, u \in BOOLEAN }

StrmInit ==
    /\ processor \in {"FileProcessor", "StrmGenerator"}
    /\ live \in StrmConfigs
    /\ start = live
    /\ inst = NoInst
    /\ parent_path \in {<< >>, << "t", "v" >>}
    /\ depth = 0
    /\ decision = NoDecision
    /\ listing = << >>
    /\ todo = << >>
    /\ disk = {}
    /\ run_cloud_files = {}
    /\ overwrite \in BOOLEAN
    /\ strm_runs = 0

StrmIdle ==
    /\ listing = << >>
    /\ todo = << >>
    /\ disk = {}
    /\ run_cloud_files = {}
    /\ overwrite = FALSE
    /\ strm_runs = 0

\* os.path.exists(strm_path)
OnDisk(p) == \E x \in disk : x[1] = p

Content(p) == (CHOOSE x \in disk : x[1] = p)[2]

\* d[k] = v of a dict kept as a set of pairs; open(path, "w").write(v).
Assign(d, k, v) == {x \in d : x[1] # k} \cup {<<k, v>>}

\* file_traverser.py:20-25, strm_generator.py:17-26 (job_manager.py:41): a
\* run constructs a new traverser, whose cloud_files is empty, and a new
\* processor from the configuration; the cloud lists l for it.
ST_RunStart(l) ==
    /\ todo = << >>
    /\ strm_runs < MaxStrmRuns
    /\ strm_runs' = strm_runs + 1
    /\ inst' = NewInst(processor, live)
    /\ start' = live
    /\ listing' = l
    /\ todo' = l
    /\ run_cloud_files' = {}
    /\ UNCHANGED <<disk, overwrite>>
    /\ UNCHANGED <<processor, live, parent_path, depth, decision>>
    /\ UNCHANGED nonStrmVars

\* strm_generator.py:117-127, file_traverser.py:116-127: the path of the
\* folder that holds the item.
FolderPath(i, item) ==
    IF item.folder = << >> THEN parent_path
    ELSE ProcessPath(i, parent_path, item.folder)

\* file_processor.py:96-103, strm_generator.py:200-212: the strm file is
\* written when it does not exist or overwrite is set.
WriteStrm(d) ==
    IF d.action = "EmitStrm" /\ (~OnDisk(d.path) \/ overwrite)
    THEN Assign(disk, d.path, d.url)
    ELSE disk

\* strm_generator.py:128-133, file_traverser.py:128-132 with
\* file_processor.py:79-105, strm_generator.py:173-214: the next file item
\* is processed and the path process_file returns is recorded with the
\* item's fileId.
ST_ProcessItem ==
    /\ todo # << >>
    /\ LET item == Head(todo)
           d == ProcessFile(processor, inst, live, item,
                            PassedPath(processor, inst, FolderPath(inst, item),
                                       item.filename))
       IN  /\ decision' = d
           /\ disk' = WriteStrm(d)
           /\ run_cloud_files' = Assign(run_cloud_files, d.path, item.fileId)
    /\ todo' = Tail(todo)
    /\ UNCHANGED <<listing, overwrite, strm_runs>>
    /\ UNCHANGED <<processor, live, start, inst, parent_path, depth>>
    /\ UNCHANGED nonStrmVars

StrmNext ==
    \/ \E l \in Listings : ST_RunStart(l)
    \/ ST_ProcessItem

\* The redirect URL that carries file id `id` (file_processor.py:82).
RedirectUrl(id) == VideoUrl(inst, live.proxy, [fileId |-> id], << >>)

\* C32: after any sequence of job runs with use_302_url set, every strm
\* path of the latest manifest names a strm file whose URL carries the file
\* id the manifest maps the path to.
C32_StrmIdMatchesManifest ==
    (strm_runs > 0 /\ todo = << >> /\ inst.use_302_url) =>
        \A x \in run_cloud_files :
            OnDisk(x[1]) /\ Content(x[1]) = RedirectUrl(x[2])

(***************************************************************************)
(* Two saves of the manifest cache at the same time                        *)
(***************************************************************************)
\* The two calls of async_save_file_ids that overlap: one made by the
\* scheduled run, one by the run the scrape endpoint started in a thread
\* (route.py:133-138).
Savers == {"scheduled", "scrape"}

IdleSaver ==
    [spc |-> "idle", job_id |-> "", cloud_files |-> EmptyMap, data |-> EmptyMap]

RaceInit ==
    /\ cache_files \in {NoCacheFile, JsonObject(EmptyMap)}
    /\ cache_before = cache_files
    /\ save_arg = [job_id |-> "", cloud_files |-> EmptyMap]
    /\ save_result = "none"
    /\ nsaves = 0
    /\ saver = [s \in Savers |-> IdleSaver]

RaceIdle == saver = [s \in Savers |-> IdleSaver]

\* The job id the other saver was called with.
OtherJob(s) == {saver[o].job_id : o \in Savers \ {s}}

\* utils.py:507-516: the call starts, for a job no other call is saving.
S_Call(s, job_id, cloud) ==
    /\ saver[s].spc = "idle"
    /\ job_id \notin OtherJob(s)
    /\ saver' = [saver EXCEPT ![s] = [spc |-> "exists", job_id |-> job_id,
                                      cloud_files |-> cloud, data |-> EmptyMap]]
    /\ UNCHANGED saveVars
    /\ UNCHANGED nonRaceVars

\* utils.py:519  `if not await async_file_exists(file_path)`
S_Exists(s) ==
    /\ saver[s].spc = "exists"
    /\ saver' = [saver EXCEPT ![s].spc =
                    IF cache_files.kind = "nofile" THEN "create_open" ELSE "read"]
    /\ UNCHANGED saveVars
    /\ UNCHANGED nonRaceVars

\* utils.py:176 (from 520, 541): aiofiles.open(file_path, "w") creates the
\* file or truncates it; until the write it holds no JSON.
S_Open(s) ==
    /\ saver[s].spc \in {"create_open", "open"}
    /\ cache_files' = NotJson
    /\ saver' = [saver EXCEPT ![s].spc =
                    IF saver[s].spc = "create_open" THEN "create_write" ELSE "write"]
    /\ UNCHANGED <<cache_before, save_arg, save_result, nsaves>>
    /\ UNCHANGED nonRaceVars

\* utils.py:520, 177: "{}" is written to the file just created.
S_CreateWrite(s) ==
    /\ saver[s].spc = "create_write"
    /\ cache_files' = JsonObject(EmptyMap)
    /\ saver' = [saver EXCEPT ![s].spc = "read"]
    /\ UNCHANGED <<cache_before, save_arg, save_result, nsaves>>
    /\ UNCHANGED nonRaceVars

\* utils.py:523-527: the content read and parsed; whatever cannot be read
\* or parsed counts as {}.
ReadData(file) == IF file.kind = "json" THEN file.data ELSE EmptyMap

\* utils.py:523-538: the file is read and the manifest merged into the data
\* read, in memory.
S_Read(s) ==
    /\ saver[s].spc = "read"
    /\ saver' = [saver EXCEPT
                    ![s].data = Merged(ReadData(cache_files),
                                       SubKey(saver[s].job_id),
                                       saver[s].cloud_files),
                    ![s].spc = "open"]
    /\ UNCHANGED saveVars
    /\ UNCHANGED nonRaceVars

\* utils.py:541-545, 177: the merged data is written and the call returns.
S_Write(s) ==
    /\ saver[s].spc = "write"
    /\ cache_files' = JsonObject(saver[s].data)
    /\ saver' = [saver EXCEPT ![s].spc = "done"]
    /\ UNCHANGED <<cache_before, save_arg, save_result, nsaves>>
    /\ UNCHANGED nonRaceVars

RaceNext ==
    \/ \E s \in Savers, j \in {"X", "Y"}, cloud \in PathMaps \ {EmptyMap} :
          S_Call(s, j, cloud)
    \/ \E s \in Savers : S_Exists(s)
    \/ \E s \in Savers : S_Open(s)
    \/ \E s \in Savers : S_CreateWrite(s)
    \/ \E s \in Savers : S_Read(s)
    \/ \E s \in Savers : S_Write(s)

\* The cache file holds every entry of the manifest saver s was given, under
\* the sub-key of its job.
Holds(s) ==
    /\ cache_files.kind = "json"
    /\ SubKey(saver[s].job_id) \in DOMAIN cache_files.data
    /\ \A p \in DOMAIN saver[s].cloud_files :
          /\ p \in DOMAIN cache_files.data[SubKey(saver[s].job_id)]
          /\ cache_files.data[SubKey(saver[s].job_id)][p] = saver[s].cloud_files[p]

\* C33: when two different jobs persist their manifests at the same time,
\* after both have finished the cache file contains every path -> id entry
\* of both manifests under their job-id sub-keys.
C33_NoLostUpdate ==
    (\A s \in Savers : saver[s].spc = "done") => \A s \in Savers : Holds(s)

(***************************************************************************)
(* The redirect endpoint and the download-URL cache                        *)
(***************************************************************************)
\* Bounds: the clock and the requests served.
MaxUrlTime == 2
MaxUrlRequests == 3

\* config_manager.py:118  cache_expire_time (900 s), the unit of the clock.
CacheExpireTime == 1

\* file_id and job_id path parameters of a request.
UrlFileIds == {0, 1, 2}

UrlJobIds == {"", "j"}

\* What the name get_file_download_info of route.py:103 may stand for: the
\* synchronous function of that name (api.py:301-320), or the coroutine
\* function get_file_download_url (cloud_api.py:326-345), which the call
\* does not await.
Lookups == {"get_file_download_info", "get_file_download_url"}

DownloadUrl(file_id) == <<"downloadUrl", file_id>>

None == <<"None">>

Coroutine == <<"coroutine">>

IsUrl(u) == u # None /\ u # Coroutine

NoEntry == [url |-> None, expire_time |-> -1]

NoReply == [kind |-> "none", file_id |-> 0, looked_up |-> FALSE,
            download_url |-> None, location |-> None]

UrlInit ==
    /\ lookup \in Lookups
    /\ download_url_cache = [f \in UrlFileIds |-> NoEntry]
    /\ url_now = 0
    /\ reply = NoReply
    /\ nrequests = 0

UrlIdle ==
    /\ lookup = "get_file_download_info"
    /\ download_url_cache = [f \in UrlFileIds |-> NoEntry]
    /\ url_now = 0
    /\ reply = NoReply
    /\ nrequests = 0

Cached(file_id) == download_url_cache[file_id] # NoEntry

\* api.py:301-320, cloud_api.py:326-345: what the call of route.py:103
\* returns: the downloadUrl of the response, or None once the retries are
\* used up (neither function raises); the coroutine function, not awaited,
\* returns a coroutine object.
LookupResults(file_id) ==
    IF lookup = "get_file_download_info"
    THEN {DownloadUrl(file_id), None}
    ELSE {Coroutine}

\* route.py:104-112: `if not download_url` only logs; the entry is stored
\* whatever download_url is.
Stores(cache, file_id, download_url) ==
    [cache EXCEPT ![file_id] =
        [url |-> download_url, expire_time |-> url_now + CacheExpireTime]]

\* route.py:80-119  get_file_url(file_id, job_id).
\*   90-93    invalid parameters are answered with 400;
\*   95-98    a cached entry is answered with a redirect to its url;
\*   101-115  else the lookup, the store and the redirect;
\*   116-119  an exception of these is logged and the handler returns None.
\* RedirectResponse is given whatever the url is; what it does with a value
\* that is not a string is the framework's: it redirects or raises.
get_file_url(file_id, job_id) ==
    /\ nrequests < MaxUrlRequests
    /\ nrequests' = nrequests + 1
    /\ IF file_id <= 0 \/ job_id = ""
       THEN /\ reply' = [NoReply EXCEPT !.kind = "400", !.file_id = file_id]
            /\ UNCHANGED download_url_cache
       ELSE IF Cached(file_id)
       THEN /\ \E raised \in {FALSE, ~IsUrl(download_url_cache[file_id].url)} :
                 reply' = [NoReply EXCEPT
                              !.kind = IF raised THEN "500" ELSE "302",
                              !.file_id = file_id,
                              !.location = download_url_cache[file_id].url]
            /\ UNCHANGED download_url_cache
       ELSE \E download_url \in LookupResults(file_id) :
               /\ download_url_cache' =
                      Stores(download_url_cache, file_id, download_url)
               /\ \E raised \in {FALSE, ~IsUrl(download_url)} :
                     reply' = [kind |-> IF raised THEN "null" ELSE "302",
                               file_id |-> file_id, looked_up |-> TRUE,
                               download_url |-> download_url,
                               location |-> download_url]
    /\ UNCHANGED <<lookup, url_now>>
    /\ UNCHANGED nonUrlVars

\* cloud_api.py:68-72  clean_download_url_cache (scheduler.py:111-114, every
\* round of the scheduler loop): entries past their expire_time are dropped.
clean_download_url_cache ==
    /\ \E f \in UrlFileIds :
          Cached(f) /\ url_now > download_url_cache[f].expire_time
    /\ download_url_cache' =
          [f \in UrlFileIds |->
              IF Cached(f) /\ url_now > download_url_cache[f].expire_time
              THEN NoEntry ELSE download_url_cache[f]]
    /\ UNCHANGED <<lookup, url_now, reply, nrequests>>
    /\ UNCHANGED nonUrlVars

UrlTick ==
    /\ url_now < MaxUrlTime
    /\ url_now' = url_now + 1
    /\ UNCHANGED <<lookup, download_url_cache, reply, nrequests>>
    /\ UNCHANGED nonUrlVars

UrlNext ==
    \/ \E f \in UrlFileIds, j \in UrlJobIds : get_file_url(f, j)
    \/ clean_download_url_cache
    \/ UrlTick

\* C35: the redirect endpoint stores a URL for a file id only when the
\* lookup returned one: the cache never holds an entry without a URL, and a
\* request whose lookup failed leaves no entry for its file id, so that the
\* next request for the id looks it up again.
C35_CacheHoldsOnlyUrls ==
    /\ \A f \in UrlFileIds : Cached(f) => IsUrl(download_url_cache[f].url)
    /\ (reply.looked_up /\ ~IsUrl(reply.download_url)) => ~Cached(reply.file_id)

(***************************************************************************)
(* upload_directory                                                        *)
(***************************************************************************)
\* The files os.walk may find under folder_path.
UpFiles == {"a.mkv", "b.mkv", "c.mkv"}

\* What a call of upload_file_v2_create or complete_multipart_upload leaves
\* in the caller's variable: both are coroutine functions
\* (cloud_api.py:369, 480) and route.py:205, 238 call them without await, so
\* the value is a coroutine object and no statement of the callee runs.
CoroutineObject == [kind |-> "coroutine"]

\* A response dict of upload_file_v2_create (cloud_api.py:393-406).
CreateResponse(reuse, preuploadID) ==
    [kind |-> "dict", reuse |-> reuse, preuploadID |-> preuploadID]

\* A result dict of complete_multipart_upload (cloud_api.py:499-556).
SliceResult(code) == [kind |-> "dict", code |-> code]

\* A handler whose except branch removes the file it failed on.
HandleFileRemovesOnError(upload_info, too_large, slice_result) == "removed"

\* route.py:214-262: what upload_directory does with a file, given what the
\* create call and the multipart call left in upload_info and slice_result.
\*   214  `"data" not in upload_info` raises TypeError on a coroutine
\*        object; the except of line 263 counts the file as failed;
\*   220-224  reuse: the file is removed;
\*   229-232  no reuse and larger than MAX_FILE_SIZE: failed;
\*   233-258  a preuploadID: removed if the multipart result has code 0.
HandleFile(upload_info, too_large, slice_result) ==
    IF upload_info.kind = "coroutine" THEN "failed"
    ELSE IF upload_info.reuse THEN "removed"
    ELSE IF too_large THEN "failed"
    ELSE IF upload_info.preuploadID = "" THEN "failed"
    ELSE IF slice_result.kind = "coroutine" THEN "failed"
    ELSE IF slice_result.code = 0 THEN "removed"
    ELSE "failed"

UpInit ==
    /\ up_pc = "idle"
    /\ up_disk \in SUBSET UpFiles
    /\ up_query \in [has_params : BOOLEAN, folder_exists : BOOLEAN,
                     special : SUBSET UpFiles, too_large : SUBSET UpFiles,
                     unreadable : SUBSET {"a.mkv"}]
    /\ up_walk = << >>
    /\ up_sent = {}
    /\ up_accepted = {}
    /\ up_removed = {}
    /\ up_failed = {}

UpIdle ==
    /\ up_pc = "idle"
    /\ up_disk = {}
    /\ up_query = [has_params |-> FALSE, folder_exists |-> FALSE,
                   special |-> {}, too_large |-> {}, unreadable |-> {}]
    /\ up_walk = << >>
    /\ up_sent = {}
    /\ up_accepted = {}
    /\ up_removed = {}
    /\ up_failed = {}

\* The files of a set in the order os.walk lists them.
RECURSIVE WalkOrder(_)
WalkOrder(S) ==
    IF S = {} THEN << >>
    ELSE LET f == CHOOSE x \in S : TRUE IN << f >> \o WalkOrder(S \ {f})

\* route.py:154-177: a request without a required parameter or for a
\* folder that does not exist is answered at once; else the walk starts.
U_Start ==
    /\ up_pc = "idle"
    /\ IF up_query.has_params /\ up_query.folder_exists
       THEN /\ up_pc' = "walk"
            /\ up_walk' = WalkOrder(up_disk)
       ELSE /\ up_pc' = "rejected"
            /\ UNCHANGED up_walk
    /\ UNCHANGED <<up_disk, up_query, up_sent, up_accepted, up_removed, up_failed>>
    /\ UNCHANGED nonUpVars

\* route.py:180-267: the next file of the walk.  A path that is not a
\* regular file is skipped (184-187); os.path.getsize or the MD5 of a file
\* that cannot be read raises and the file counts as failed (263-267); else
\* the create call is made, which sends nothing, and HandleFile decides.
U_File ==
    /\ up_pc = "walk"
    /\ up_walk # << >>
    /\ LET f == Head(up_walk)
           what == IF f \in up_query.special THEN "skipped"
                   ELSE IF f \in up_query.unreadable THEN "failed"
                   ELSE HandleFile(CoroutineObject, f \in up_query.too_large,
                                   CoroutineObject)
       IN  /\ up_disk' = IF what = "removed" THEN up_disk \ {f} ELSE up_disk
           /\ up_removed' = IF what = "removed" THEN up_removed \cup {f}
                            ELSE up_removed
           /\ up_failed' = IF what = "failed" THEN up_failed \cup {f}
                           ELSE up_failed
    /\ up_walk' = Tail(up_walk)
    /\ UNCHANGED <<up_pc, up_query, up_sent, up_accepted>>
    /\ UNCHANGED nonUpVars

\* route.py:269-295: after the walk the empty folders are removed and the
\* counts are returned.
U_Finish ==
    /\ up_pc = "walk"
    /\ up_walk = << >>
    /\ up_pc' = "done"
    /\ UNCHANGED <<up_disk, up_query, up_walk, up_sent, up_accepted,
                   up_removed, up_failed>>
    /\ UNCHANGED nonUpVars

UpNext ==
    \/ U_Start
    \/ U_File
    \/ U_Finish

MaxJobs == 3

MaxValidations == 2

\* A job of job_list; an id of << >> is an id that is missing or empty.
Job(id) == [dict |-> TRUE, id |-> id]

\* An entry of job_list that is not a dict (its id field is never read).
NotADict == [dict |-> FALSE, id |-> << >>]

\* The ids a loaded job list may carry.
InputIds == { << >>, << "a" >>, << "a", "_", "d", "u", "p", "l", "i", "c", "a", "t", "e", "_", "2" >>, << "j", "o", "b", "_", "1" >> }

InputJobLists ==
    UNION { [1 .. n -> {Job(id) : id \in InputIds} \cup {NotADict}] :
              n \in 0 .. MaxJobs }

\* f"job_{i}"
DefaultId(i) == << "j", "o", "b", "_" >> \o IntStr(i)

\* f"{job_id}_duplicate_{i}"
DuplicateId(job_id, i) == job_id \o << "_", "d", "u", "p", "l", "i", "c", "a", "t", "e", "_" >> \o IntStr(i)

\* The loop over enumerate(job_list) from index i on, job_ids being the
\* ids added so far: the job list it leaves.
RECURSIVE ValidateJobs(_, _, _)
ValidateJobs(jobs, i, ids) ==
    IF i >= Len(jobs)
    THEN jobs
    ELSE LET job == jobs[i + 1]
         IN  IF ~job.dict
             THEN ValidateJobs(jobs, i + 1, ids)
             ELSE LET given  == IF job.id = << >> THEN DefaultId(i) ELSE job.id
                      job_id == IF given \in ids
                                THEN DuplicateId(given, i)
                                ELSE given
                  IN  ValidateJobs([jobs EXCEPT ![i + 1] = Job(job_id)],
                                   i + 1, ids \cup {job_id})

CfgInit ==
    /\ job_list \in InputJobLists
    /\ nvalidations = 0

CfgIdle ==
    /\ job_list = << >>
    /\ nvalidations = 0

\* validate() on an initialized configuration whose job_list is a list.
V_Validate ==
    /\ nvalidations < MaxValidations
    /\ job_list' = ValidateJobs(job_list, 0, {})
    /\ nvalidations' = nvalidations + 1
    /\ UNCHANGED nonCfgVars

CfgNext == V_Validate

\* C39: after validate() every job of job_list has a non-empty id and the
\* ids of the jobs are pairwise distinct, whatever the job list was.
C39_IdsDistinctAfterValidate ==
    nvalidations >= 1 =>
        \A i \in 1 .. Len(job_list) :
            job_list[i].dict =>
                /\ job_list[i].id # << >>
                /\ \A j \in 1 .. Len(job_list) :
                      (j # i /\ job_list[j].dict) =>
                          job_list[j].id # job_list[i].id

(***************************************************************************)
(* ConnectionPool (api.py)                                                 *)
(***************************************************************************)

MaxPoolSize == 2

MaxPoolTime == 2

MaxConns == 4

PoolInit ==
    /\ pool_cfg \in [max_size : 0 .. MaxPoolSize,
                     idle_timeout : 1 .. MaxPoolTime]
    /\ pool = << >>
    /\ pool_out = {}
    /\ pool_time = 0
    /\ pool_made = 0
    /\ pool_result = "none"

PoolIdle ==
    /\ pool_cfg = [max_size |-> 0, idle_timeout |-> 1]
    /\ pool = << >>
    /\ pool_out = {}
    /\ pool_time = 0
    /\ pool_made = 0
    /\ pool_result = "none"

\* _clean_expired_connections at time pool_time.
CleanExpired(p) ==
    SelectSeq(p, LAMBDA e : pool_time - e.ts < pool_cfg.idle_timeout)

\* get_connection: an idle connection if there is one, else a new one when
\* the pool holds fewer than max_size, else the pool-full error.
P_Get ==
    LET cleaned == CleanExpired(pool)
    IN  /\ IF cleaned # << >>
           THEN /\ pool' = SubSeq(cleaned, 1, Len(cleaned) - 1)
                /\ pool_out' = pool_out \cup {cleaned[Len(cleaned)].conn}
                /\ pool_result' = "conn"
                /\ UNCHANGED pool_made
           ELSE IF Len(cleaned) < pool_cfg.max_size
           THEN /\ pool_made < MaxConns
                /\ pool' = cleaned
                /\ pool_made' = pool_made + 1
                /\ pool_out' = pool_out \cup {pool_made + 1}
                /\ pool_result' = "conn"
           ELSE /\ pool' = cleaned
                /\ pool_result' = "full"
                /\ UNCHANGED <<pool_out, pool_made>>
        /\ UNCHANGED <<pool_cfg, pool_time>>
        /\ UNCHANGED nonPoolVars

\* release_connection of a connection that was handed out.
P_Release ==
    \E conn \in pool_out :
        /\ pool' = IF Len(pool) < pool_cfg.max_size
                   THEN Append(pool, [conn |-> conn, ts |-> pool_time])
                   ELSE pool
        /\ pool_out' = pool_out \ {conn}
        /\ UNCHANGED <<pool_cfg, pool_time, pool_made, pool_result>>
        /\ UNCHANGED nonPoolVars

\* time.time() advances.
P_Tick ==
    /\ pool_time < MaxPoolTime
    /\ pool_time' = pool_time + 1
    /\ UNCHANGED <<pool_cfg, pool, pool_out, pool_made, pool_result>>
    /\ UNCHANGED nonPoolVars

PoolNext ==
    \/ P_Get
    \/ P_Release
    \/ P_Tick

\* C40: the pool never holds more than max_size idle connections, and never
\* more than max_size connections are handed out and not yet released.
C40_PoolWithinMaxSize ==
    /\ Len(pool) <= pool_cfg.max_size
    /\ Cardinality(pool_out) <= pool_cfg.max_size

(***************************************************************************)
(* Specifications                                                          *)
(***************************************************************************)

MoreIdle == StrmIdle /\ RaceIdle /\ UrlIdle /\ UpIdle /\ CfgIdle /\ PoolIdle

ExtIdle == AllIdle /\ SaveIdle /\ ProcIdle /\ SchedIdle /\ MoreIdle

InitToken == TokenInit /\ JobInit /\ CleanIdle /\ TravIdle /\ ExtIdle

SpecToken == InitToken /\ [][TokenNext]_vars

InitTrav == TravInit /\ JobInit /\ CleanIdle /\ TokenIdle /\ ExtIdle

SpecTrav == InitTrav /\ [][TravNext]_vars

InitClean == CleanInit /\ JobInit /\ TokenIdle /\ TravIdle /\ ExtIdle

SpecClean == InitClean /\ [][CleanNext]_vars

InitJob == JobInit /\ CleanIdle /\ TokenIdle /\ TravIdle /\ ExtIdle

SpecJob == InitJob /\ [][JobNext]_vars

InitAll == JobInit /\ AllInit /\ CleanIdle /\ TokenIdle /\ TravIdle /\ SaveIdle /\ ProcIdle /\ SchedIdle /\ MoreIdle

InitSave == SaveInit /\ JobInit /\ AllIdle /\ CleanIdle /\ TokenIdle /\ TravIdle /\ ProcIdle /\ SchedIdle /\ MoreIdle

BaseIdle == JobInit /\ CleanIdle /\ TokenIdle /\ TravIdle /\ AllIdle /\ SaveIdle /\ MoreIdle

InitClassify == ProcInit(ClassifyConfigs) /\ BaseIdle /\ SchedIdle

InitPath == PathInit /\ BaseIdle /\ SchedIdle

InitReload == ProcInit(ReloadConfigs) /\ BaseIdle /\ SchedIdle

InitSched == SchedInit /\ BaseIdle /\ ProcIdle

SpecAll == InitAll /\ [][AllNext]_vars

SpecSave == InitSave /\ [][SaveNext]_vars

SpecClassify == InitClassify /\ [][ClassifyNext]_vars

SpecPath == InitPath /\ [][PathNext]_vars

SpecReload == InitReload /\ [][ReloadNext]_vars

\* The event loop runs every task that is ready, and a sleep ends.
SpecSched == InitSched /\ [][SchedNext]_vars /\ WF_vars(TimerStep)

\* The parts before the strm files, at rest.
FirstIdle == JobInit /\ CleanIdle /\ TokenIdle /\ TravIdle /\ AllIdle /\ SaveIdle /\ SchedIdle

InitStrm == StrmInit /\ FirstIdle /\ RaceIdle /\ UrlIdle /\ UpIdle /\ CfgIdle /\ PoolIdle

SpecStrm == InitStrm /\ [][StrmNext]_vars

InitRace == RaceInit /\ JobInit /\ CleanIdle /\ TokenIdle /\ TravIdle /\ AllIdle /\ ProcIdle /\ SchedIdle /\ StrmIdle /\ UrlIdle /\ UpIdle /\ CfgIdle /\ PoolIdle

SpecRace == InitRace /\ [][RaceNext]_vars

InitUrl == UrlInit /\ FirstIdle /\ ProcIdle /\ StrmIdle /\ RaceIdle /\ UpIdle /\ CfgIdle /\ PoolIdle

SpecUrl == InitUrl /\ [][UrlNext]_vars

InitUp == UpInit /\ FirstIdle /\ ProcIdle /\ StrmIdle /\ RaceIdle /\ UrlIdle /\ CfgIdle /\ PoolIdle

SpecUp == InitUp /\ [][UpNext]_vars

InitCfg == CfgInit /\ FirstIdle /\ ProcIdle /\ StrmIdle /\ RaceIdle /\ UrlIdle /\ UpIdle /\ PoolIdle

SpecCfg == InitCfg /\ [][CfgNext]_vars

InitPool == PoolInit /\ FirstIdle /\ ProcIdle /\ StrmIdle /\ RaceIdle /\ UrlIdle /\ UpIdle /\ CfgIdle

SpecPool == InitPool /\ [][PoolNext]_vars

====
